---- MODULE Spec2Model ----
(***************************************************************************)
(* Shipment tracking service: the shipment model (shipment.model.js), the  *)
(* shipment controller (shipment.controller.js) and the request validators *)
(* of the router (shipment.routes.js).                                     *)
(*                                                                         *)
(* A request handler is one atomic action: route validators, the           *)
(* controller body and the final save().  The store is the `shipments`     *)
(* collection, a sequence of documents with a unique index on              *)
(* trackingNumber.  In Spec, SpecFleet, SpecRoute, SpecCheckpoints and     *)
(* SpecReach the store is connected and available.  SpecFaults lets store  *)
(* calls fail                                                              *)
(* with connectivity errors; `recovery` is the log of the store calls a    *)
(* handler made from its first failed call on.  SpecRace splits the two    *)
(* update handlers at their awaits (findOne, save); `pending` holds the    *)
(* requests of SpecRace from the moment they loaded their document.        *)
(* SpecConnection puts the connection check of server.js in front of the   *)
(* handlers; `conn` is the state of the mongoose connection and of the     *)
(* connectDB module.                                                       *)
(*                                                                         *)
(* Geometry.  Coordinates are [longitude, latitude] in thousandths of a    *)
(* degree.  All points used lie on the meridian longitude = 0, where the   *)
(* haversine formula reduces to R * toRad(|dLat|); distances are integer   *)
(* metres.  Timestamps of locations and history events are not modelled;   *)
(* a handler that reads the clock takes the day it reads as an input.      *)
(***************************************************************************)
EXTENDS Integers, Sequences, FiniteSets, TLC

VARIABLES store, req, res, nextId, recovery, pending, conn

vars == <<store, req, res, nextId, recovery, pending, conn>>

\* mongoose.connection.readyState
Disconnected == 0

Connected == 1

\* the two connectDB modules of config/database: the one that always calls
\* mongoose.connect, and the one that keeps the isConnected flag
Variants == {"connect", "flag"}

\* the connection: which connectDB is loaded, mongoose's readyState, the
\* module's isConnected flag (FALSE in the module without it), whether the
\* server can be reached, the calls of mongoose.connect that opened or tried
\* to open a connection, and whether one of them opened it
Connection(variant, readyState, isConnected, reachable, attempts) ==
    [variant |-> variant, readyState |-> readyState, isConnected |-> isConnected,
     reachable |-> reachable, attempts |-> attempts, opened |-> readyState = Connected]

\* after startServer's connectDB() resolved
Established == Connection("flag", Connected, TRUE, TRUE, 1)

\* ------------------------------------------------------------------------
\* Bounds of the model
\* ------------------------------------------------------------------------
MaxHistory == 3
MaxObjectIds == 1
MaxClock == 1
MaxRouteCheckpoints == 2

\* ------------------------------------------------------------------------
\* JavaScript values
\* ------------------------------------------------------------------------
\* an absent string field; an absent description or array is << >>,
\* an absent date is NoDate, an absent object has no coordinates and no address
NoValue == "undefined"
NoDate == 0
NoLocation == [coordinates |-> << >>, address |-> ""]

\* request values of a boolean field: the booleans and the string 'false'
JSTrue == "true"
JSFalse == "false"
StrFalse == "'false'"

\* JavaScript truthiness of a string-like or boolean request value
Truthy(v) == ~(v \in {NoValue, JSFalse, ""})

Abs(x) == IF x < 0 THEN -x ELSE x

Min(a, b) == IF a <= b THEN a ELSE b

\* ------------------------------------------------------------------------
\* shipment.model.js
\* ------------------------------------------------------------------------
StatusEnum == {"pending", "in_transit", "out_for_delivery", "delivered", "exception"}

\* locationSchema.coordinates validator (thousandths of a degree)
ValidCoordinates(v) ==
    /\ Len(v) = 2
    /\ v[1] >= -180000 /\ v[1] <= 180000
    /\ v[2] >= -90000 /\ v[2] <= 90000

EarthRadius == 6371
PiNum == 355
PiDen == 113

\* toRad(degrees) * R, for an angle in thousandths of a degree, in metres
toRadTimesR(mdeg) == (EarthRadius * PiNum * mdeg) \div (PiDen * 180)

\* haversine distance in metres between two points of one meridian
calculateDistance(point1, point2) == toRadTimesR(Abs(point2[2] - point1[2]))

\* 0.5 km, in metres
ProximityRadius == 500

\* one history entry (timestamps not modelled)
HistoryEvent(location, status, description) ==
    [location |-> location, status |-> status, description |-> description]

\* mutant of CheckpointLoop: the loop stops at the first checkpoint it marks
RECURSIVE CheckpointLoopFirstOnly(_, _)
CheckpointLoopFirstOnly(doc, i) ==
    IF i > Len(doc.checkpoints) THEN doc
    ELSE LET checkpoint == doc.checkpoints[i]
             distance == calculateDistance(doc.currentLocation.coordinates,
                                           checkpoint.location.coordinates)
         IN  IF ~checkpoint.reached /\ distance < ProximityRadius
             THEN [doc EXCEPT !.checkpoints[i].reached = TRUE,
                              !.history = Append(@, [location |-> doc.currentLocation,
                                                     status |-> doc.status,
                                                     description |-> <<"Reached checkpoint: ", checkpoint.name>>])]
             ELSE CheckpointLoopFirstOnly(doc, i + 1)

\* mutant of CheckpointLoop: a checkpoint in range is announced whether or not
\* it was reached before
RECURSIVE CheckpointLoopReannouncing(_, _)
CheckpointLoopReannouncing(doc, i) ==
    IF i > Len(doc.checkpoints) THEN doc
    ELSE LET checkpoint == doc.checkpoints[i]
             distance == calculateDistance(doc.currentLocation.coordinates,
                                           checkpoint.location.coordinates)
         IN  IF distance < ProximityRadius
             THEN CheckpointLoopReannouncing(
                    [doc EXCEPT !.checkpoints[i].reached = TRUE,
                                !.history = Append(@, HistoryEvent(doc.currentLocation, doc.status,
                                                     <<"Reached checkpoint: ", checkpoint.name>>))],
                    i + 1)
             ELSE CheckpointLoopReannouncing(doc, i + 1)

\* the forEach of updateLocation, from checkpoint i on
RECURSIVE CheckpointLoop(_, _)
CheckpointLoop(doc, i) ==
    IF i > Len(doc.checkpoints) THEN doc
    ELSE LET checkpoint == doc.checkpoints[i]
             distance == calculateDistance(doc.currentLocation.coordinates,
                                           checkpoint.location.coordinates)
         IN  IF ~checkpoint.reached /\ distance < ProximityRadius
             THEN CheckpointLoop(
                    [doc EXCEPT !.checkpoints[i].reached = TRUE,
                                !.history = Append(@, HistoryEvent(doc.currentLocation, doc.status,
                                                     <<"Reached checkpoint: ", checkpoint.name>>))],
                    i + 1)
             ELSE CheckpointLoop(doc, i + 1)

\* mutant of updateLocation: the new event replaces the last history entry
updateLocationOverwriting(doc, locationData, status, description) ==
    LET loc  == [coordinates |-> <<locationData.longitude, locationData.latitude>>,
                 address |-> locationData.address]
        st   == IF Truthy(status) THEN status ELSE doc.status
    IN  [doc EXCEPT !.currentLocation = loc,
                    !.status = st,
                    !.history = [@ EXCEPT ![Len(@)] =
                                   [location |-> loc, status |-> st,
                                    description |-> <<"Location updated">>]]]

\* shipmentSchema.methods.updateLocation: the document handed to this.save()
updateLocation(doc, locationData, status, description) ==
    LET loc  == [coordinates |-> <<locationData.longitude, locationData.latitude>>,
                 address |-> locationData.address]
        st   == IF Truthy(status) THEN status ELSE doc.status
        doc1 == [doc EXCEPT !.currentLocation = loc,
                            !.status = st,
                            !.history = Append(@, HistoryEvent(loc, st,
                                IF description # << >> THEN description ELSE <<"Location updated">>))]
    IN  IF Len(doc1.checkpoints) > 0 THEN CheckpointLoop(doc1, 1) ELSE doc1

\* mongoose Boolean cast of a request value (checkpointSchema.reached)
CastBoolean(v) ==
    CASE v = JSTrue -> TRUE
      [] v \in {JSFalse, StrFalse} -> FALSE

\* document validation run by save(): every location's coordinates and the status enum
ValidLocation(loc) == ValidCoordinates(loc.coordinates) /\ loc.address # ""

ValidDocument(doc) ==
    /\ ValidLocation(doc.origin)
    /\ ValidLocation(doc.destination)
    /\ ValidLocation(doc.currentLocation)
    /\ \A i \in 1..Len(doc.checkpoints) : ValidLocation(doc.checkpoints[i].location)
    /\ doc.status \in StatusEnum

\* ------------------------------------------------------------------------
\* The collection
\* ------------------------------------------------------------------------
\* Shipment.findOne({ trackingNumber }): index of the document, 0 when absent
findOne(trackingNumber) ==
    IF \E i \in 1..Len(store) : store[i].trackingNumber = trackingNumber
    THEN CHOOSE i \in 1..Len(store) : store[i].trackingNumber = trackingNumber
    ELSE 0

\* shipment.checkpoints.id(checkpointId): index of the subdocument, 0 when absent
checkpointsId(doc, checkpointId) ==
    IF \E i \in 1..Len(doc.checkpoints) : doc.checkpoints[i].id = checkpointId
    THEN CHOOSE i \in 1..Len(doc.checkpoints) : doc.checkpoints[i].id = checkpointId
    ELSE 0

\* ------------------------------------------------------------------------
\* shipment.controller.js helpers
\* ------------------------------------------------------------------------
Chars == << "A", "B", "C", "D", "E", "F", "G", "H", "I", "J", "K", "L", "M",
            "N", "O", "P", "Q", "R", "S", "T", "U", "V", "W", "X", "Y", "Z",
            "0", "1", "2", "3", "4", "5", "6", "7", "8", "9" >>

\* generateTrackingNumber: random[i] is Math.floor(Math.random() * chars.length)
\* of iteration i - 1
RECURSIVE trackingLoop(_, _, _)
trackingLoop(random, i, result) ==
    IF i >= 12 THEN result
    ELSE LET r1 == Append(result, Chars[random[i + 1] + 1])
             r2 == IF (i + 1) % 4 = 0 /\ i < 11 THEN Append(r1, "-") ELSE r1
         IN  trackingLoop(random, i + 1, r2)

generateTrackingNumber(random) == trackingLoop(random, 0, << >>)

\* calculateEstimatedDelivery: 3 days from today
DeliveryDays == 3

calculateEstimatedDelivery(today) == today + DeliveryDays

\* res.status(code).json(body)
Json(code, body) == [code |-> code, body |-> body]

Failure(code, error) == Json(code, [success |-> FALSE, error |-> error])

Success(code, data, message) ==
    Json(code, [success |-> TRUE, data |-> data, message |-> message])

\* the handler a request was routed to
Request(op) == [op |-> op]

\* routes: validate answers 400 with the validator's error array
ValidationRejected == Json(400, [errors |-> "validation errors"])

\* what a handler leaves behind: its response, the collection, the id counter
Outcome(response, collection, id) ==
    [res |-> response, store |-> collection, nextId |-> id]

\* ------------------------------------------------------------------------
\* POST /api/shipments
\* ------------------------------------------------------------------------
\* validators of router.post('/')
createValidators(body) ==
    /\ Len(body.origin.coordinates) = 2
    /\ body.origin.address # ""
    /\ Len(body.destination.coordinates) = 2
    /\ body.destination.address # ""
    /\ body.customer.name # ""
    /\ body.customer.email # ""
    /\ body.estimatedDelivery # NoDate

MissingLocation(l) == l.coordinates = << >> \/ l.address = ""

\* the checkpoint loop of createShipment: index of the first checkpoint that is
\* rejected, 0 when all pass
firstRejectedCheckpoint(checkpoints) ==
    LET bad == {i \in 1..Len(checkpoints) :
                  MissingLocation(checkpoints[i].location) \/ checkpoints[i].name = ""}
    IN  IF bad = {} THEN 0 ELSE CHOOSE i \in bad : \A j \in bad : i <= j

\* mutant of validatedCheckpoints: the client's reached value is kept
validatedCheckpointsKeepingReached(checkpoints) ==
    [i \in 1..Len(checkpoints) |->
        [id |-> nextId + i - 1,
         location |-> [coordinates |-> checkpoints[i].location.coordinates,
                       address |-> checkpoints[i].location.address],
         name |-> checkpoints[i].name,
         estimatedArrival |-> checkpoints[i].estimatedArrival,
         reached |-> (checkpoints[i].reached = JSTrue),
         notes |-> checkpoints[i].notes]]

validatedCheckpoints(checkpoints) ==
    [i \in 1..Len(checkpoints) |->
        [id |-> nextId + i - 1,
         location |-> [coordinates |-> checkpoints[i].location.coordinates,
                       address |-> checkpoints[i].location.address],
         name |-> checkpoints[i].name,
         estimatedArrival |-> checkpoints[i].estimatedArrival,
         reached |-> FALSE,
         notes |-> checkpoints[i].notes]]

newShipment(body, random, today) ==
    LET originLoc == [coordinates |-> body.origin.coordinates, address |-> body.origin.address]
    IN  [trackingNumber |-> generateTrackingNumber(random),
         origin |-> originLoc,
         destination |-> [coordinates |-> body.destination.coordinates,
                          address |-> body.destination.address],
         checkpoints |-> validatedCheckpoints(body.checkpoints),
         currentLocation |-> originLoc,
         status |-> "pending",
         estimatedDelivery |-> IF body.estimatedDelivery # NoDate
                               THEN body.estimatedDelivery
                               ELSE calculateEstimatedDelivery(today),
         customer |-> [name |-> body.customer.name, email |-> body.customer.email,
                       phone |-> body.customer.phone],
         items |-> body.items,
         history |-> << HistoryEvent(originLoc, "pending", <<"Shipment created">>) >>]

\* mutant of createOutcome: no unique index on trackingNumber
createOutcomeUnindexed(body, random, today) ==
    LET shipment == newShipment(body, random, today)
    IN  IF createValidators(body) /\ firstRejectedCheckpoint(body.checkpoints) = 0
           /\ ValidDocument(shipment)
        THEN Outcome(Json(201, [success |-> TRUE, data |-> shipment,
                                message |-> "Shipment created successfully"]),
                     Append(store, shipment), nextId + Len(shipment.checkpoints))
        ELSE Outcome(ValidationRejected, store, nextId)

createOutcome(body, random, today) ==
    LET rejected == firstRejectedCheckpoint(body.checkpoints)
        shipment == newShipment(body, random, today)
        unchanged(response) == Outcome(response, store, nextId)
    IN  CASE ~createValidators(body) -> unchanged(ValidationRejected)
          [] OTHER ->
        CASE MissingLocation(body.origin) ->
               unchanged(Failure(400, "Origin with coordinates and address is required"))
          [] OTHER ->
        CASE MissingLocation(body.destination) ->
               unchanged(Failure(400, "Destination with coordinates and address is required"))
          [] OTHER ->
        CASE body.customer.name = "" \/ body.customer.email = "" ->
               unchanged(Failure(400, "Customer with name and email is required"))
          [] OTHER ->
        CASE rejected # 0 /\ MissingLocation(body.checkpoints[rejected].location) ->
               unchanged(Failure(400, "Each checkpoint must have location with coordinates and address"))
          [] rejected # 0 ->
               unchanged(Failure(400, "Each checkpoint must have a name"))
          [] OTHER ->
        CASE ~ValidDocument(shipment) ->
               unchanged(Failure(400, "Invalid shipment data"))
          [] findOne(shipment.trackingNumber) # 0 ->
               unchanged(Failure(500, "Duplicate tracking number. Please try again."))
          [] OTHER ->
               Outcome(Success(201, shipment, "Shipment created successfully"),
                       Append(store, shipment),
                       nextId + Len(shipment.checkpoints))

Apply(request, outcome) ==
    /\ req' = request
    /\ res' = outcome.res
    /\ store' = outcome.store
    /\ nextId' = outcome.nextId
    /\ recovery' = << >>
    /\ UNCHANGED <<pending, conn>>

createShipment(body, random, today) ==
    Apply(Request("createShipment"), createOutcome(body, random, today))

\* ------------------------------------------------------------------------
\* PATCH /api/shipments/:trackingNumber/location
\* ------------------------------------------------------------------------
\* validators of the two location routes
locationValidators(trackingNumber, body) ==
    /\ trackingNumber # << >>
    /\ Len(body.coordinates) = 2
    /\ body.address # ""
    /\ (body.status = NoValue \/ body.status \in StatusEnum)

\* save() of a loaded document: written only when it validates
saveOutcome(i, doc, failure, success) ==
    IF ValidDocument(doc)
    THEN Outcome(success, [store EXCEPT ![i] = doc], nextId)
    ELSE Outcome(failure, store, nextId)

updateShipmentLocationOutcome(trackingNumber, body) ==
    LET i == findOne(trackingNumber)
        failure == Failure(500, "Failed to update shipment location")
    IN  CASE ~locationValidators(trackingNumber, body) -> Outcome(ValidationRejected, store, nextId)
          [] i = 0 -> Outcome(Failure(404, "Shipment not found"), store, nextId)
          [] ~ValidCoordinates(body.coordinates) -> Outcome(failure, store, nextId)
          [] OTHER ->
               LET doc == updateLocation(store[i],
                              [longitude |-> body.coordinates[1],
                               latitude |-> body.coordinates[2],
                               address |-> body.address],
                              body.status, body.description)
               IN  saveOutcome(i, doc, failure,
                       Success(200, doc, "Shipment location updated successfully"))

updateShipmentLocation(trackingNumber, body) ==
    Apply(Request("updateShipmentLocation"),
          updateShipmentLocationOutcome(trackingNumber, body))

\* ------------------------------------------------------------------------
\* PATCH /api/shipments/:trackingNumber/status
\* ------------------------------------------------------------------------
\* mutant of updateShipmentStatusOutcome: a delivered shipment accepts no other status
updateShipmentStatusGuarded(trackingNumber, body) ==
    LET i == findOne(trackingNumber)
    IN  CASE ~Truthy(body.status) -> Outcome(Failure(400, "Status is required"), store, nextId)
          [] i = 0 -> Outcome(Failure(404, "Shipment not found"), store, nextId)
          [] store[i].status = "delivered" /\ body.status # "delivered" ->
               Outcome(Failure(400, "Invalid status transition"), store, nextId)
          [] OTHER ->
               LET doc == [store[i] EXCEPT
                             !.status = body.status,
                             !.history = Append(@, [location |-> store[i].currentLocation,
                                                    status |-> body.status,
                                                    description |-> <<"Status updated to ", body.status>>])]
               IN  Outcome(Json(200, [success |-> TRUE, data |-> doc,
                                      message |-> "Shipment status updated successfully"]),
                           [store EXCEPT ![i] = doc], nextId)

\* mutant of updateShipmentStatusOutcome: the shipment is looked up before the body is read
updateShipmentStatusLookupFirst(trackingNumber, body) ==
    LET i == findOne(trackingNumber)
    IN  CASE i = 0 -> Outcome(Failure(404, "Shipment not found"), store, nextId)
          [] ~Truthy(body.status) -> Outcome(Failure(400, "Status is required"), store, nextId)
          [] OTHER ->
               LET doc == [store[i] EXCEPT
                             !.status = body.status,
                             !.history = Append(@, [location |-> store[i].currentLocation,
                                                    status |-> body.status,
                                                    description |-> <<"Status updated to ", body.status>>])]
               IN  IF doc.status \in StatusEnum
                   THEN Outcome(Json(200, [success |-> TRUE, data |-> doc,
                                           message |-> "Shipment status updated successfully"]),
                                [store EXCEPT ![i] = doc], nextId)
                   ELSE Outcome(Failure(500, "Failed to update shipment status"), store, nextId)

updateShipmentStatusOutcome(trackingNumber, body) ==
    LET i == findOne(trackingNumber)
    IN  CASE ~Truthy(body.status) -> Outcome(Failure(400, "Status is required"), store, nextId)
          [] i = 0 -> Outcome(Failure(404, "Shipment not found"), store, nextId)
          [] OTHER ->
               LET shipment == store[i]
                   doc == [shipment EXCEPT
                             !.status = body.status,
                             !.history = Append(@, HistoryEvent(shipment.currentLocation, body.status,
                                 IF body.description # << >> THEN body.description
                                 ELSE <<"Status updated to ", body.status>>))]
               IN  saveOutcome(i, doc, Failure(500, "Failed to update shipment status"),
                       Success(200, doc, "Shipment status updated successfully"))

updateShipmentStatus(trackingNumber, body) ==
    Apply(Request("updateShipmentStatus"),
          updateShipmentStatusOutcome(trackingNumber, body))

\* ------------------------------------------------------------------------
\* PATCH /api/shipments/:trackingNumber/location/manual
\* ------------------------------------------------------------------------
\* mutant of updateShipmentLocationManuallyOutcome: an update equal to the last history
\* event is not recorded again
updateShipmentLocationManuallyDeduplicating(trackingNumber, body) ==
    LET i == findOne(trackingNumber)
    IN  CASE ~locationValidators(trackingNumber, body) -> Outcome(ValidationRejected, store, nextId)
          [] i = 0 -> Outcome(Failure(404, "Shipment not found"), store, nextId)
          [] OTHER ->
               LET shipment == store[i]
                   loc == [coordinates |-> body.coordinates, address |-> body.address]
                   st  == IF Truthy(body.status) THEN body.status ELSE shipment.status
                   event == [location |-> loc, status |-> st,
                             description |-> IF body.description # << >> THEN body.description
                                             ELSE <<"Location updated manually">>]
                   doc == [shipment EXCEPT
                             !.currentLocation = loc,
                             !.status = st,
                             !.history = IF @[Len(@)] = event THEN @ ELSE Append(@, event)]
               IN  IF ValidDocument(doc)
                   THEN Outcome(Json(200, [success |-> TRUE, data |-> doc,
                                           message |-> "Shipment location updated successfully"]),
                                [store EXCEPT ![i] = doc], nextId)
                   ELSE Outcome(Failure(500, "Failed to update shipment location"), store, nextId)

\* mutant of updateShipmentLocationManuallyOutcome: the manual route runs the tracked update
updateShipmentLocationManuallyDetecting(trackingNumber, body) ==
    updateShipmentLocationOutcome(trackingNumber, body)

updateShipmentLocationManuallyOutcome(trackingNumber, body) ==
    LET i == findOne(trackingNumber)
    IN  CASE ~locationValidators(trackingNumber, body) -> Outcome(ValidationRejected, store, nextId)
          [] Len(body.coordinates) # 2 ->
               Outcome(Failure(400, "Valid coordinates [longitude, latitude] are required"), store, nextId)
          [] body.address = "" -> Outcome(Failure(400, "Address is required"), store, nextId)
          [] i = 0 -> Outcome(Failure(404, "Shipment not found"), store, nextId)
          [] OTHER ->
               LET shipment == store[i]
                   loc == [coordinates |-> body.coordinates, address |-> body.address]
                   st  == IF Truthy(body.status) THEN body.status ELSE shipment.status
                   doc == [shipment EXCEPT
                             !.currentLocation = loc,
                             !.status = st,
                             !.history = Append(@, HistoryEvent(loc, st,
                                 IF body.description # << >> THEN body.description
                                 ELSE <<"Location updated manually">>))]
               IN  saveOutcome(i, doc, Failure(500, "Failed to update shipment location"),
                       Success(200, doc, "Shipment location updated successfully"))

updateShipmentLocationManually(trackingNumber, body) ==
    Apply(Request("updateShipmentLocationManually"),
          updateShipmentLocationManuallyOutcome(trackingNumber, body))

\* ------------------------------------------------------------------------
\* POST /api/shipments/:trackingNumber/checkpoints
\* ------------------------------------------------------------------------
addCheckpointValidators(trackingNumber, body) ==
    /\ trackingNumber # << >>
    /\ Len(body.location.coordinates) = 2
    /\ body.location.address # ""
    /\ body.name # ""

\* mutant of addCheckpointOutcome: the new checkpoint is put first (unshift for push)
addCheckpointPrepending(trackingNumber, body) ==
    LET i == findOne(trackingNumber)
    IN  CASE ~addCheckpointValidators(trackingNumber, body) -> Outcome(ValidationRejected, store, nextId)
          [] i = 0 -> Outcome(Failure(404, "Shipment not found"), store, nextId)
          [] OTHER ->
               LET doc == [store[i] EXCEPT !.checkpoints =
                             << [id |-> nextId,
                                 location |-> [coordinates |-> body.location.coordinates,
                                               address |-> body.location.address],
                                 name |-> body.name,
                                 estimatedArrival |-> body.estimatedArrival,
                                 reached |-> FALSE,
                                 notes |-> body.notes] >> \o @]
               IN  IF ValidDocument(doc)
                   THEN Outcome(Json(200, [success |-> TRUE, data |-> doc,
                                           message |-> "Checkpoint added successfully"]),
                                [store EXCEPT ![i] = doc], nextId + 1)
                   ELSE Outcome(Failure(500, "Failed to add checkpoint"), store, nextId)

addCheckpointOutcome(trackingNumber, body) ==
    LET i == findOne(trackingNumber)
    IN  CASE ~addCheckpointValidators(trackingNumber, body) -> Outcome(ValidationRejected, store, nextId)
          [] MissingLocation(body.location) ->
               Outcome(Failure(400, "Location with coordinates and address is required"), store, nextId)
          [] body.name = "" -> Outcome(Failure(400, "Checkpoint name is required"), store, nextId)
          [] i = 0 -> Outcome(Failure(404, "Shipment not found"), store, nextId)
          [] OTHER ->
               LET newCheckpoint ==
                       [id |-> nextId,
                        location |-> [coordinates |-> body.location.coordinates,
                                      address |-> body.location.address],
                        name |-> body.name,
                        estimatedArrival |-> body.estimatedArrival,
                        reached |-> FALSE,
                        notes |-> body.notes]
                   doc == [store[i] EXCEPT !.checkpoints = Append(@, newCheckpoint)]
               IN  IF ValidDocument(doc)
                   THEN Outcome(Success(200, doc, "Checkpoint added successfully"),
                                [store EXCEPT ![i] = doc], nextId + 1)
                   ELSE Outcome(Failure(500, "Failed to add checkpoint"), store, nextId)

addCheckpoint(trackingNumber, body) ==
    Apply(Request("addCheckpoint"),
          addCheckpointOutcome(trackingNumber, body))

\* ------------------------------------------------------------------------
\* PATCH /api/shipments/:trackingNumber/checkpoints/:checkpointId
\* ------------------------------------------------------------------------
checkpointValidators(trackingNumber, checkpointId) ==
    trackingNumber # << >> /\ checkpointId # 0

updateCheckpointOutcome(trackingNumber, checkpointId, body) ==
    LET i == findOne(trackingNumber)
    IN  CASE ~checkpointValidators(trackingNumber, checkpointId) -> Outcome(ValidationRejected, store, nextId)
          [] i = 0 -> Outcome(Failure(404, "Shipment not found"), store, nextId)
          [] checkpointsId(store[i], checkpointId) = 0 ->
               Outcome(Failure(404, "Checkpoint not found"), store, nextId)
          [] OTHER ->
               LET shipment == store[i]
                   c   == checkpointsId(shipment, checkpointId)
                   cp0 == shipment.checkpoints[c]
                   cp1 == IF Truthy(body.name) THEN [cp0 EXCEPT !.name = body.name] ELSE cp0
                   cp2 == IF body.estimatedArrival # NoDate
                          THEN [cp1 EXCEPT !.estimatedArrival = body.estimatedArrival] ELSE cp1
                   cp3 == IF body.reached # NoValue
                          THEN [cp2 EXCEPT !.reached = CastBoolean(body.reached)] ELSE cp2
                   cp4 == IF body.notes # NoValue THEN [cp3 EXCEPT !.notes = body.notes] ELSE cp3
                   cp5 == IF ~MissingLocation(body.location)
                          THEN [cp4 EXCEPT !.location = [coordinates |-> body.location.coordinates,
                                                         address |-> body.location.address]]
                          ELSE cp4
                   announce == Truthy(body.reached) /\ ~cp5.reached
                   cp6 == IF announce THEN [cp5 EXCEPT !.reached = TRUE] ELSE cp5
                   doc == [shipment EXCEPT
                             !.checkpoints[c] = cp6,
                             !.history = IF announce
                                         THEN Append(@, HistoryEvent(shipment.currentLocation, shipment.status,
                                                        <<"Checkpoint reached: ", cp5.name>>))
                                         ELSE @]
               IN  saveOutcome(i, doc, Failure(500, "Failed to update checkpoint"),
                       Success(200, doc, "Checkpoint updated successfully"))

updateCheckpoint(trackingNumber, checkpointId, body) ==
    Apply(Request("updateCheckpoint"),
          updateCheckpointOutcome(trackingNumber, checkpointId, body))

\* ------------------------------------------------------------------------
\* DELETE /api/shipments/:trackingNumber/checkpoints/:checkpointId
\* ------------------------------------------------------------------------
\* checkpoint.remove(): the array without the subdocument at index c
removeAt(checkpoints, c) ==
    [k \in 1..(Len(checkpoints) - 1) |-> IF k < c THEN checkpoints[k] ELSE checkpoints[k + 1]]

\* mutant of deleteCheckpointOutcome: an unknown checkpoint id is not reported
deleteCheckpointLenient(trackingNumber, checkpointId) ==
    LET i == findOne(trackingNumber)
    IN  CASE i = 0 -> Outcome(Failure(404, "Shipment not found"), store, nextId)
          [] checkpointsId(store[i], checkpointId) = 0 ->
               Outcome(Json(200, [success |-> TRUE, data |-> store[i],
                                  message |-> "Checkpoint deleted successfully"]), store, nextId)
          [] OTHER ->
               LET doc == [store[i] EXCEPT
                             !.checkpoints = removeAt(@, checkpointsId(store[i], checkpointId))]
               IN  Outcome(Json(200, [success |-> TRUE, data |-> doc,
                                      message |-> "Checkpoint deleted successfully"]),
                           [store EXCEPT ![i] = doc], nextId)

deleteCheckpointOutcome(trackingNumber, checkpointId) ==
    LET i == findOne(trackingNumber)
    IN  CASE ~checkpointValidators(trackingNumber, checkpointId) -> Outcome(ValidationRejected, store, nextId)
          [] i = 0 -> Outcome(Failure(404, "Shipment not found"), store, nextId)
          [] checkpointsId(store[i], checkpointId) = 0 ->
               Outcome(Failure(404, "Checkpoint not found"), store, nextId)
          [] OTHER ->
               LET doc == [store[i] EXCEPT
                             !.checkpoints = removeAt(@, checkpointsId(store[i], checkpointId))]
               IN  saveOutcome(i, doc, Failure(500, "Failed to delete checkpoint"),
                       Success(200, doc, "Checkpoint deleted successfully"))

deleteCheckpoint(trackingNumber, checkpointId) ==
    Apply(Request("deleteCheckpoint"),
          deleteCheckpointOutcome(trackingNumber, checkpointId))

\* ------------------------------------------------------------------------
\* Read operations
\* ------------------------------------------------------------------------
Read(request, response) ==
    /\ req' = request
    /\ res' = response
    /\ recovery' = << >>
    /\ UNCHANGED <<store, nextId, pending, conn>>

paramValidators(trackingNumber) == trackingNumber # << >>

getShipmentByTrackingNumber(trackingNumber) ==
    LET i == findOne(trackingNumber)
    IN  Read(Request("getShipmentByTrackingNumber"),
             CASE ~paramValidators(trackingNumber) -> ValidationRejected
               [] i = 0 -> Failure(404, "Shipment not found")
               [] OTHER -> Json(200, [success |-> TRUE, data |-> store[i]]))

getShipmentHistory(trackingNumber) ==
    LET i == findOne(trackingNumber)
    IN  Read(Request("getShipmentHistory"),
             CASE ~paramValidators(trackingNumber) -> ValidationRejected
               [] i = 0 -> Failure(404, "Shipment not found")
               [] OTHER -> Json(200, [success |-> TRUE, data |-> store[i].history]))

\* Number.prototype.toFixed(2) of a distance in km, given in metres: hundredths of a km
toFixed2(metres) == (metres + 5) \div 10

AverageSpeed == 50

getShipmentETA(trackingNumber) ==
    LET i == findOne(trackingNumber)
        shipment == store[i]
        distance == calculateDistance(shipment.currentLocation.coordinates,
                                      shipment.destination.coordinates)
    IN  Read(Request("getShipmentETA"),
             CASE ~paramValidators(trackingNumber) -> ValidationRejected
               [] i = 0 -> Json(404, [error |-> "Shipment not found"])
               [] OTHER ->
                    Json(200, [trackingNumber |-> shipment.trackingNumber,
                               currentLocation |-> shipment.currentLocation,
                               destination |-> shipment.destination,
                               distance |-> toFixed2(distance),
                               estimatedTimeHours |-> (distance + 5 * AverageSpeed) \div (10 * AverageSpeed),
                               status |-> shipment.status]))

\* ------------------------------------------------------------------------
\* GET /api/shipments/:trackingNumber/distance
\* ------------------------------------------------------------------------
\* Math.round(NaN) is NaN, serialised as null: no number, written -1
NaN == -1

\* [origin, checkpoints in order, destination]
routePoints(shipment) ==
    <<shipment.origin.coordinates>>
      \o [k \in 1..Len(shipment.checkpoints) |-> shipment.checkpoints[k].location.coordinates]
      \o <<shipment.destination.coordinates>>

\* mutant of totalLoop: the segment into the destination is left out
RECURSIVE totalLoopToLastCheckpoint(_, _, _, _)
totalLoopToLastCheckpoint(shipment, points, i, acc) ==
    IF i >= Len(points) - 2 THEN acc
    ELSE totalLoopToLastCheckpoint(shipment, points, i + 1,
             [totalDistance |-> acc.totalDistance + calculateDistance(points[i + 1], points[i + 2]),
              checkpointDistances |-> acc.checkpointDistances])

\* the first loop over the segments, from index i (0-based) on
RECURSIVE totalLoop(_, _, _, _)
totalLoop(shipment, points, i, acc) ==
    IF i >= Len(points) - 1 THEN acc
    ELSE LET segmentDistance == calculateDistance(points[i + 1], points[i + 2])
             cds == IF i > 0 /\ i < Len(points) - 2
                    THEN Append(acc.checkpointDistances,
                                [checkpointName |-> shipment.checkpoints[i].name,
                                 distance |-> toFixed2(segmentDistance)])
                    ELSE acc.checkpointDistances
         IN  totalLoop(shipment, points, i + 1,
                       [totalDistance |-> acc.totalDistance + segmentDistance,
                        checkpointDistances |-> cds])

\* mutant of traveledLoop: a later segment that matches overrides an earlier match
RECURSIVE traveledLoopLastMatch(_, _, _, _)
traveledLoopLastMatch(shipment, points, i, acc) ==
    IF i >= Len(points) - 1 THEN acc
    ELSE LET segmentDistance == calculateDistance(points[i + 1], points[i + 2])
             distanceToStart == calculateDistance(points[i + 1], shipment.currentLocation.coordinates)
             distanceToEnd == calculateDistance(shipment.currentLocation.coordinates, points[i + 2])
             before == IF i = 0 THEN 0 ELSE acc.before
         IN  IF (distanceToStart + distanceToEnd) * 10 <= segmentDistance * 11
             THEN traveledLoopLastMatch(shipment, points, i + 1,
                      [traveled |-> before + distanceToStart, currentFound |-> TRUE,
                       before |-> before + segmentDistance])
             ELSE traveledLoopLastMatch(shipment, points, i + 1,
                      [traveled |-> acc.traveled, currentFound |-> acc.currentFound,
                       before |-> before + segmentDistance])

\* mutant of traveledLoop: the segment the shipment is in is counted in full
RECURSIVE traveledLoopWholeSegments(_, _, _, _)
traveledLoopWholeSegments(shipment, points, i, acc) ==
    IF i >= Len(points) - 1 THEN acc
    ELSE LET segmentDistance == calculateDistance(points[i + 1], points[i + 2])
             distanceToStart == calculateDistance(points[i + 1], shipment.currentLocation.coordinates)
             distanceToEnd == calculateDistance(shipment.currentLocation.coordinates, points[i + 2])
         IN  IF acc.currentFound THEN acc
             ELSE traveledLoopWholeSegments(shipment, points, i + 1,
                      [traveled |-> acc.traveled + segmentDistance,
                       currentFound |-> (distanceToStart + distanceToEnd) * 10 <= segmentDistance * 11])

\* the second loop over the segments, from index i (0-based) on
RECURSIVE traveledLoop(_, _, _, _)
traveledLoop(shipment, points, i, acc) ==
    IF i >= Len(points) - 1 THEN acc
    ELSE LET segmentDistance == calculateDistance(points[i + 1], points[i + 2])
             distanceToStart == calculateDistance(points[i + 1], shipment.currentLocation.coordinates)
             distanceToEnd == calculateDistance(shipment.currentLocation.coordinates, points[i + 2])
         IN  IF acc.currentFound THEN traveledLoop(shipment, points, i + 1, acc)
             ELSE IF (distanceToStart + distanceToEnd) * 10 <= segmentDistance * 11
                  THEN traveledLoop(shipment, points, i + 1,
                           [traveled |-> acc.traveled + distanceToStart, currentFound |-> TRUE])
                  ELSE traveledLoop(shipment, points, i + 1,
                           [traveled |-> acc.traveled + segmentDistance, currentFound |-> FALSE])

\* Math.min(Math.round((distanceTraveled / totalDistance) * 100), 99)
progress(distanceTraveled, totalDistance) ==
    IF totalDistance = 0
    THEN IF distanceTraveled = 0 THEN NaN ELSE 99
    ELSE Min((200 * distanceTraveled + totalDistance) \div (2 * totalDistance), 99)

routeDistance(shipment) ==
    LET direct == calculateDistance(shipment.origin.coordinates,
                                    shipment.currentLocation.coordinates)
        remainingDistance == calculateDistance(shipment.currentLocation.coordinates,
                                               shipment.destination.coordinates)
        hasCheckpoints == Len(shipment.checkpoints) > 0
        points == routePoints(shipment)
        total == IF hasCheckpoints
                 THEN totalLoop(shipment, points, 0,
                                [totalDistance |-> 0, checkpointDistances |-> << >>])
                 ELSE [totalDistance |-> calculateDistance(shipment.origin.coordinates,
                                                           shipment.destination.coordinates),
                       checkpointDistances |-> << >>]
        found == traveledLoop(shipment, points, 0, [traveled |-> 0, currentFound |-> FALSE])
        distanceTraveled == IF hasCheckpoints /\ found.currentFound THEN found.traveled ELSE direct
    IN  [trackingNumber |-> shipment.trackingNumber,
         distanceTraveled |-> toFixed2(distanceTraveled),
         remainingDistance |-> toFixed2(remainingDistance),
         totalDistance |-> toFixed2(total.totalDistance),
         progress |-> progress(distanceTraveled, total.totalDistance),
         checkpoints |-> [k \in 1..Len(shipment.checkpoints) |->
                            [name |-> shipment.checkpoints[k].name,
                             address |-> shipment.checkpoints[k].location.address,
                             reached |-> shipment.checkpoints[k].reached,
                             estimatedArrival |-> shipment.checkpoints[k].estimatedArrival]],
         checkpointDistances |-> total.checkpointDistances]

getShipmentRouteDistance(trackingNumber) ==
    LET i == findOne(trackingNumber)
    IN  Read(Request("getShipmentRouteDistance"),
             CASE ~paramValidators(trackingNumber) -> ValidationRejected
               [] i = 0 -> Failure(404, "Shipment not found")
               [] OTHER -> Json(200, [success |-> TRUE, data |-> routeDistance(store[i])]))

\* ------------------------------------------------------------------------
\* Requests
\* ------------------------------------------------------------------------
Point(lat) == <<0, lat>>

Location(lat, address) == [coordinates |-> Point(lat), address |-> address]

\* Math.random() draws of one generateTrackingNumber call
Draw1 == [i \in 1..12 |-> (7 * i) % 36]
Draw2 == [i \in 1..12 |-> 35]

RandomDraws == {Draw1}

\* tracking numbers in request paths: one that create can produce, one it cannot
TrackingNumbers == {generateTrackingNumber(Draw1), generateTrackingNumber(Draw2)}

CheckpointInput(lat, name, reached) ==
    [location |-> Location(lat, "D"), name |-> name, reached |-> reached,
     estimatedArrival |-> NoDate, notes |-> ""]

Customer == [name |-> "X", email |-> "x@y.com", phone |-> ""]

CreateBody(origin, destination, checkpoints, customer, estimatedDelivery) ==
    [origin |-> origin, destination |-> destination, checkpoints |-> checkpoints,
     customer |-> customer, items |-> << >>, estimatedDelivery |-> estimatedDelivery]

TwoCheckpoints == << CheckpointInput(4, "CP1", JSTrue), CheckpointInput(5, "CP2", NoValue) >>

NoCustomer == [name |-> "", email |-> "", phone |-> ""]

CreateBodies ==
    { CreateBody(Location(0, "A"), Location(10, "B"), TwoCheckpoints, Customer, 7),
      CreateBody(Location(0, "A"), Location(0, "B"), << >>, Customer, 7),
      CreateBody(Location(0, "A"), Location(10, "B"), << >>, Customer, NoDate),
      CreateBody(NoLocation, Location(10, "B"), << >>, Customer, 7),
      CreateBody(Location(0, "A"), Location(10, "B"), << >>, NoCustomer, 7),
      CreateBody(Location(0, "A"), Location(10, "B"), << CheckpointInput(4, "", NoValue) >>, Customer, 7),
      CreateBody(Location(0, "A"), Location(90001, "B"), << >>, Customer, 7) }

LocationBody(coordinates, address, status) ==
    [coordinates |-> coordinates, address |-> address, status |-> status, description |-> << >>]

\* bodies of the tracked location update
LocationBodies ==
    { LocationBody(Point(0), "C", NoValue),
      LocationBody(Point(4), "C", NoValue),
      LocationBody(Point(10), "C", "in_transit"),
      LocationBody(Point(90001), "C", NoValue),
      LocationBody(Point(4), "", NoValue),
      LocationBody(Point(4), "C", "bogus") }

\* bodies of the manual location update
ManualBodies ==
    { LocationBody(Point(4), "C", NoValue),
      [LocationBody(Point(10), "C", "in_transit") EXCEPT !.description = <<"Left the depot">>],
      LocationBody(Point(90001), "C", NoValue),
      LocationBody(Point(4), "", NoValue),
      LocationBody(Point(4), "C", "bogus") }

StatusBodies ==
    { [status |-> s, description |-> << >>] : s \in StatusEnum \cup {NoValue, "bogus"} }

AddCheckpointBodies ==
    { CheckpointInput(5, "CP3", NoValue), CheckpointInput(5, "", NoValue),
      CheckpointInput(90001, "CP3", NoValue) }

UpdateCheckpointBodies ==
    { [name |-> NoValue, estimatedArrival |-> NoDate, reached |-> r, notes |-> NoValue,
       location |-> NoLocation] : r \in {NoValue, JSTrue, JSFalse, StrFalse} }

CheckpointIds == 1..(MaxObjectIds + 1)

\* requests are issued while every stored history is shorter than MaxHistory, and
\* checkpoints are added while an object id is left (bounds of the model)
Room == \A i \in 1..Len(store) : Len(store[i].history) < MaxHistory

\* ------------------------------------------------------------------------
\* Specification
\* ------------------------------------------------------------------------
Init ==
    /\ store = << >>
    /\ req = Request("none")
    /\ res = Json(0, [success |-> TRUE])
    /\ nextId = 1
    /\ recovery = << >>
    /\ pending = << >>
    /\ conn = Established

Next ==
    \/ \E body \in CreateBodies, random \in RandomDraws, today \in 0..MaxClock :
          Room /\ createShipment(body, random, today)
    \/ \E tn \in TrackingNumbers, body \in LocationBodies :
          Room /\ updateShipmentLocation(tn, body)
    \/ \E tn \in TrackingNumbers, body \in ManualBodies :
          Room /\ updateShipmentLocationManually(tn, body)
    \/ \E tn \in TrackingNumbers, body \in StatusBodies :
          Room /\ updateShipmentStatus(tn, body)
    \/ \E tn \in TrackingNumbers, body \in AddCheckpointBodies :
          Room /\ nextId <= MaxObjectIds /\ addCheckpoint(tn, body)
    \/ \E tn \in TrackingNumbers, id \in CheckpointIds, body \in UpdateCheckpointBodies :
          Room /\ updateCheckpoint(tn, id, body)
    \/ \E tn \in TrackingNumbers, id \in CheckpointIds : Room /\ deleteCheckpoint(tn, id)
    \/ \E tn \in TrackingNumbers : Room /\ getShipmentByTrackingNumber(tn)
    \/ \E tn \in TrackingNumbers : Room /\ getShipmentHistory(tn)
    \/ \E tn \in TrackingNumbers : Room /\ getShipmentETA(tn)
    \/ \E tn \in TrackingNumbers : Room /\ getShipmentRouteDistance(tn)

Spec == Init /\ [][Next]_vars

\* ------------------------------------------------------------------------
\* Several shipments: well-formed requests on a collection of up to two
\* ------------------------------------------------------------------------
Draw3 == [i \in 1..12 |-> (5 * i) % 36]

\* create draws one of two tracking numbers; request paths also name one never drawn
FleetDraws == {Draw1, Draw2}

FleetNumbers == {generateTrackingNumber(Draw1), generateTrackingNumber(Draw2),
                 generateTrackingNumber(Draw3)}

FleetCreateBodies ==
    { CreateBody(Location(0, "A"), Location(10, "B"), << >>, Customer, 7) }

FleetLocationBodies == { LocationBody(Point(4), "C", NoValue) }

FleetStatusBodies == { [status |-> "delivered", description |-> << >>] }

FleetAddBodies == { CheckpointInput(5, "CP3", NoValue) }

FleetUpdateBodies ==
    { [name |-> NoValue, estimatedArrival |-> NoDate, reached |-> JSTrue, notes |-> NoValue,
       location |-> NoLocation] }

FleetCheckpointIds == 1..MaxObjectIds

\* the events of all stored histories together
RECURSIVE TotalEvents(_)
TotalEvents(collection) ==
    IF collection = << >> THEN 0
    ELSE Len(collection[1].history) + TotalEvents(Tail(collection))

\* requests are issued while the stored histories together hold fewer than MaxHistory
\* events (bound of the model)
FleetRoom == TotalEvents(store) < MaxHistory

NextFleet ==
    \/ \E body \in FleetCreateBodies, random \in FleetDraws :
          FleetRoom /\ createShipment(body, random, MaxClock)
    \/ \E tn \in FleetNumbers, body \in FleetLocationBodies :
          FleetRoom /\ updateShipmentLocation(tn, body)
    \/ \E tn \in FleetNumbers, body \in FleetLocationBodies :
          FleetRoom /\ updateShipmentLocationManually(tn, body)
    \/ \E tn \in FleetNumbers, body \in FleetStatusBodies :
          FleetRoom /\ updateShipmentStatus(tn, body)
    \/ \E tn \in FleetNumbers, body \in FleetAddBodies :
          FleetRoom /\ nextId \in FleetCheckpointIds /\ addCheckpoint(tn, body)
    \/ \E tn \in FleetNumbers, id \in FleetCheckpointIds, body \in FleetUpdateBodies :
          FleetRoom /\ updateCheckpoint(tn, id, body)
    \/ \E tn \in FleetNumbers, id \in FleetCheckpointIds : FleetRoom /\ deleteCheckpoint(tn, id)
    \/ \E tn \in FleetNumbers : FleetRoom /\ getShipmentByTrackingNumber(tn)
    \/ \E tn \in FleetNumbers : FleetRoom /\ getShipmentHistory(tn)
    \/ \E tn \in FleetNumbers : FleetRoom /\ getShipmentETA(tn)
    \/ \E tn \in FleetNumbers : FleetRoom /\ getShipmentRouteDistance(tn)

SpecFleet == Init /\ [][NextFleet]_vars

\* ------------------------------------------------------------------------
\* Checkpoints: requests on one shipment created with two checkpoints
\* ------------------------------------------------------------------------
CheckpointCreateBodies ==
    { CreateBody(Location(0, "A"), Location(10, "B"), TwoCheckpoints, Customer, 7) }

\* the ids of the two created checkpoints and of those added later
AddedCheckpointIds == 1..(MaxObjectIds + 2)

NextCheckpoints ==
    \/ \E body \in CheckpointCreateBodies, random \in RandomDraws :
          Room /\ createShipment(body, random, MaxClock)
    \/ \E tn \in TrackingNumbers, body \in FleetLocationBodies :
          Room /\ updateShipmentLocation(tn, body)
    \/ \E tn \in TrackingNumbers, body \in FleetLocationBodies :
          Room /\ updateShipmentLocationManually(tn, body)
    \/ \E tn \in TrackingNumbers, body \in FleetStatusBodies :
          Room /\ updateShipmentStatus(tn, body)
    \/ \E tn \in TrackingNumbers, body \in FleetAddBodies :
          Room /\ nextId \in AddedCheckpointIds /\ addCheckpoint(tn, body)
    \/ \E tn \in TrackingNumbers, id \in AddedCheckpointIds, body \in FleetUpdateBodies :
          Room /\ updateCheckpoint(tn, id, body)
    \/ \E tn \in TrackingNumbers, id \in AddedCheckpointIds : Room /\ deleteCheckpoint(tn, id)

SpecCheckpoints == Init /\ [][NextCheckpoints]_vars

\* ------------------------------------------------------------------------
\* Route distance of one stored shipment, over a range of routes
\* ------------------------------------------------------------------------
\* latitudes of checkpoints, destinations and current locations (origin at 0)
CheckpointLatitudes == {3, 5, 6, 10}
DestinationLatitudes == {9, 10, 15}
CurrentLatitudes == {0, 3, 5, 6, 8, 10, 15, 20}

CheckpointNames == <<"CP1", "CP2", "CP3", "CP4">>

RECURSIVE SeqsUpTo(_, _)
SeqsUpTo(S, n) ==
    IF n = 0 THEN { << >> }
    ELSE LET shorter == SeqsUpTo(S, n - 1)
         IN  shorter \cup { Append(q, x) : q \in shorter, x \in S }

\* a shipment created with these checkpoints, later moved by a manual location update,
\* its checkpoints marked through updateCheckpoint
RouteShipment(latitudes, destination, current, reached) ==
    LET created == newShipment(CreateBody(Location(0, "A"), Location(destination, "B"),
                                          << >>, Customer, 7), Draw1, MaxClock)
    IN  [created EXCEPT
           !.checkpoints = [k \in 1..Len(latitudes) |->
                               [id |-> k, location |-> Location(latitudes[k], "D"),
                                name |-> CheckpointNames[k], estimatedArrival |-> NoDate,
                                reached |-> reached, notes |-> ""]],
           !.currentLocation = Location(current, "C"),
           !.history = Append(@, HistoryEvent(Location(current, "C"), "pending",
                                              <<"Location updated manually">>))]

InitRoute ==
    /\ req = Request("none")
    /\ res = Json(0, [success |-> TRUE])
    /\ recovery = << >>
    /\ pending = << >>
    /\ conn = Established
    /\ \E latitudes \in SeqsUpTo(CheckpointLatitudes, MaxRouteCheckpoints),
          destination \in DestinationLatitudes, current \in CurrentLatitudes,
          reached \in BOOLEAN :
          /\ nextId = Len(latitudes) + 1
          /\ store = << RouteShipment(latitudes, destination, current, reached) >>

NextRoute ==
    \E tn \in TrackingNumbers : getShipmentRouteDistance(tn)

SpecRoute == InitRoute /\ [][NextRoute]_vars

\* ------------------------------------------------------------------------
\* Store failures
\* ------------------------------------------------------------------------
\* what a store call or connectDB throws: the error's name, and whether its
\* message includes 'connection'
StoreError(name, connection) == [name |-> name, connection |-> connection]

NoError == StoreError("none", FALSE)

ConnectivityErrors ==
    { StoreError("MongoNetworkError", FALSE),
      StoreError("MongoServerSelectionError", FALSE),
      StoreError("MongoServerSelectionError", TRUE) }

\* the outcome of each store call of one request: the first attempt of the
\* retried call, connectDB, the second attempt, and countDocuments
Faults(first, reconnect, retry, count) ==
    [first |-> first, connectDB |-> reconnect, retry |-> retry, countDocuments |-> count]

FaultSchedules ==
    { Faults(first, reconnect, retry, count) :
        first \in ConnectivityErrors \cup {NoError},
        reconnect \in {NoError, StoreError("MongoServerSelectionError", FALSE)},
        retry \in {NoError, StoreError("MongoNetworkError", FALSE)},
        count \in {NoError, StoreError("MongoNetworkError", FALSE)} }

\* one entry of `recovery`
StoreCall(call, error) == [call |-> call, error |-> error]

\* the test that guards the reconnect-and-retry branch
retryable(error) ==
    \/ error.name = "MongoNetworkError"
    \/ error.name = "MongoTimeoutError"
    \/ error.connection

\* the store calls of a handler that retries `call`, up to the one that threw,
\* and the error thrown (NoError when the call was answered in the end)
retried(call, faults) ==
    CASE faults.first = NoError ->
           [calls |-> << >>, thrown |-> NoError]
      [] ~retryable(faults.first) ->
           [calls |-> << StoreCall(call, faults.first) >>, thrown |-> faults.first]
      [] faults.connectDB # NoError ->
           [calls |-> << StoreCall(call, faults.first),
                         StoreCall("connectDB", faults.connectDB) >>,
            thrown |-> faults.connectDB]
      [] OTHER ->
           [calls |-> << StoreCall(call, faults.first),
                         StoreCall("connectDB", NoError),
                         StoreCall(call, faults.retry) >>,
            thrown |-> faults.retry]

Respond(request, outcome, calls) ==
    /\ req' = request
    /\ res' = outcome.res
    /\ store' = outcome.store
    /\ nextId' = outcome.nextId
    /\ recovery' = calls
    /\ UNCHANGED <<pending, conn>>

\* the message of createShipment's catch block for a store error
createCaught(error) ==
    IF error.name = "MongoNetworkError"
    THEN "Network error connecting to database. Please try again later."
    ELSE "Failed to create shipment"

\* createShipment when the first save() throws a connectivity error
createShipmentRetrying(body, random, today, faults) ==
    LET saved == createOutcome(body, random, today)
        attempt == retried("save", faults)
        caught == createCaught(attempt.thrown)
    IN  /\ faults.first # NoError
        /\ saved.res.code # 400
        /\ Respond(Request("createShipment"),
                   IF attempt.thrown = NoError THEN saved
                   ELSE Outcome(Failure(500, caught), store, nextId),
                   IF attempt.thrown = NoError /\ saved.res.code # 201
                   THEN [attempt.calls EXCEPT ![3].error = StoreError("MongoServerError", FALSE)]
                   ELSE attempt.calls)

\* GET /api/shipments
DefaultLimit == 50

DefaultPage == 1

StatusFilters == {NoValue, "pending", "delivered"}

\* Shipment.find(query).sort({createdAt: -1}): newest first
find(status) ==
    LET matching == SelectSeq(store, LAMBDA d : status = NoValue \/ d.status = status)
    IN  [i \in 1..Len(matching) |-> matching[Len(matching) + 1 - i]]

countDocuments(status) == Len(find(status))

getAllShipments(status, faults) ==
    LET attempt == retried("find", faults)
        total == countDocuments(status)
        thrown == IF attempt.thrown # NoError THEN attempt.thrown ELSE faults.countDocuments
        calls == IF attempt.thrown = NoError /\ faults.countDocuments # NoError
                 THEN Append(attempt.calls, StoreCall("countDocuments", faults.countDocuments))
                 ELSE attempt.calls
        caught == CASE thrown.name = "MongoNetworkError" ->
                         "Network error connecting to database. Please try again later."
                    [] thrown.name = "MongoServerError" ->
                         "Database server error. Please try again later."
                    [] OTHER -> "Failed to fetch shipments"
    IN  Respond(Request("getAllShipments"),
                Outcome(IF thrown # NoError THEN Failure(500, caught)
                        ELSE Json(200, [success |-> TRUE,
                                        data |-> find(status),
                                        pagination |->
                                          [total |-> total, page |-> DefaultPage,
                                           limit |-> DefaultLimit,
                                           pages |-> (total + DefaultLimit - 1) \div DefaultLimit]]),
                        store, nextId),
                calls)

\* the handlers that load the shipment with Shipment.findOne, and what their
\* catch block answers
FindOneHandlers ==
    { "getShipmentByTrackingNumber", "updateShipmentLocation", "getShipmentHistory",
      "getShipmentETA", "updateShipmentStatus", "getShipmentRouteDistance",
      "updateShipmentLocationManually", "addCheckpoint", "updateCheckpoint",
      "deleteCheckpoint" }

caughtResponse(op) ==
    CASE op = "getShipmentByTrackingNumber" -> Failure(500, "Failed to fetch shipment")
      [] op = "updateShipmentLocation" -> Failure(500, "Failed to update shipment location")
      [] op = "getShipmentHistory" -> Failure(500, "Failed to fetch shipment history")
      [] op = "getShipmentETA" -> Json(500, [error |-> "Failed to calculate ETA"])
      [] op = "updateShipmentStatus" -> Failure(500, "Failed to update shipment status")
      [] op = "getShipmentRouteDistance" -> Failure(500, "Failed to calculate route distance")
      [] op = "updateShipmentLocationManually" -> Failure(500, "Failed to update shipment location")
      [] op = "addCheckpoint" -> Failure(500, "Failed to add checkpoint")
      [] op = "updateCheckpoint" -> Failure(500, "Failed to update checkpoint")
      [] op = "deleteCheckpoint" -> Failure(500, "Failed to delete checkpoint")

\* a request that passed its validators, whose Shipment.findOne throws
findOneThrows(op, error) ==
    Respond(Request(op), Outcome(caughtResponse(op), store, nextId),
            << StoreCall("findOne", error) >>)

FaultCreateBodies == FleetCreateBodies \cup CheckpointCreateBodies

NextFaults ==
    \/ \E body \in FaultCreateBodies, random \in FleetDraws :
          Len(store) < MaxHistory /\ createShipment(body, random, MaxClock)
    \/ \E body \in FaultCreateBodies, random \in FleetDraws, faults \in FaultSchedules :
          Len(store) < MaxHistory /\ createShipmentRetrying(body, random, MaxClock, faults)
    \/ \E status \in StatusFilters, faults \in FaultSchedules : getAllShipments(status, faults)
    \/ \E op \in FindOneHandlers, error \in ConnectivityErrors : findOneThrows(op, error)

SpecFaults == Init /\ [][NextFaults]_vars

\* ------------------------------------------------------------------------
\* Interleaved updates
\* ------------------------------------------------------------------------
\* requests followed through their two awaits (bound of the model)
MaxRequests == 2

RaceStatusBodies ==
    { [status |-> s, description |-> << >>] : s \in {"in_transit", "delivered"} }

RaceManualBodies ==
    { LocationBody(Point(4), "C", NoValue),
      [LocationBody(Point(10), "C", "in_transit") EXCEPT !.description = <<"Left the depot">>] }

\* a request after `await Shipment.findOne`: the document it loaded; once it
\* has saved, the status code it answered and its rank among the saves
Loaded(op, trackingNumber, body, shipment) ==
    [op |-> op, trackingNumber |-> trackingNumber, body |-> body,
     shipment |-> shipment, code |-> 0, order |-> 0]

findOneResolves(op, trackingNumber, body) ==
    /\ Len(pending) < MaxRequests
    /\ findOne(trackingNumber) # 0
    /\ pending' = Append(pending, Loaded(op, trackingNumber, body,
                                         store[findOne(trackingNumber)]))
    /\ UNCHANGED <<store, req, res, nextId, recovery, conn>>

\* updateShipmentStatus up to its first await
updateShipmentStatusFindOne(trackingNumber, body) ==
    /\ Truthy(body.status)
    /\ findOneResolves("updateShipmentStatus", trackingNumber, body)

\* updateShipmentLocationManually up to its first await
updateShipmentLocationManuallyFindOne(trackingNumber, body) ==
    /\ locationValidators(trackingNumber, body)
    /\ Len(body.coordinates) = 2
    /\ body.address # ""
    /\ findOneResolves("updateShipmentLocationManually", trackingNumber, body)

\* the status the handler assigns to the document it loaded
assignedStatus(request) ==
    IF Truthy(request.body.status) THEN request.body.status ELSE request.shipment.status

\* the location the handler assigns: the manual update takes it from the body
assignedLocation(request) ==
    IF request.op = "updateShipmentLocationManually"
    THEN [coordinates |-> request.body.coordinates, address |-> request.body.address]
    ELSE request.shipment.currentLocation

\* the event the handler pushes to shipment.history
pushedEvent(request) ==
    HistoryEvent(assignedLocation(request), assignedStatus(request),
        CASE request.body.description # << >> -> request.body.description
          [] request.op = "updateShipmentStatus" -> <<"Status updated to ", request.body.status>>
          [] OTHER -> <<"Location updated manually">>)

\* the handler's copy of the document when it calls save(): response data
inMemory(request) ==
    [request.shipment EXCEPT !.currentLocation = assignedLocation(request),
                             !.status = assignedStatus(request),
                             !.history = Append(@, pushedEvent(request))]

\* shipment.save() of a loaded document: the paths whose value the handler
\* changed are set and the pushed event is appended to the stored array; the
\* update is filtered by _id alone
written(request, stored) ==
    [stored EXCEPT
       !.currentLocation = IF assignedLocation(request) # request.shipment.currentLocation
                           THEN assignedLocation(request) ELSE @,
       !.status = IF assignedStatus(request) # request.shipment.status
                  THEN assignedStatus(request) ELSE @,
       !.history = Append(@, pushedEvent(request))]

savedMessage(request) ==
    IF request.op = "updateShipmentStatus"
    THEN "Shipment status updated successfully"
    ELSE "Shipment location updated successfully"

saveFailedMessage(request) ==
    IF request.op = "updateShipmentStatus"
    THEN "Failed to update shipment status"
    ELSE "Failed to update shipment location"

\* mutant of saveResolves: save() is filtered by the content that was loaded
saveResolvesVersioned(request) ==
    LET i == findOne(request.trackingNumber)
    IN  IF store[i] = request.shipment
        THEN Outcome(Success(200, inMemory(request), savedMessage(request)),
                     [store EXCEPT ![i] = written(request, store[i])], nextId)
        ELSE Outcome(Failure(500, saveFailedMessage(request)), store, nextId)

\* `await shipment.save()` and the response
saveResolves(request) ==
    LET i == findOne(request.trackingNumber)
    IN  Outcome(Success(200, inMemory(request), savedMessage(request)),
                [store EXCEPT ![i] = written(request, store[i])], nextId)

Saved == { k \in 1..Len(pending) : pending[k].order # 0 }

\* the rest of either handler, from save() to the response
save(k) ==
    LET outcome == saveResolves(pending[k])
    IN  /\ pending[k].order = 0
        /\ req' = Request(pending[k].op)
        /\ res' = outcome.res
        /\ store' = outcome.store
        /\ nextId' = outcome.nextId
        /\ recovery' = << >>
        /\ UNCHANGED conn
        /\ pending' = [pending EXCEPT ![k].code = outcome.res.code,
                                      ![k].order = Cardinality(Saved) + 1]

NextRace ==
    \/ \E body \in FleetCreateBodies : createShipment(body, Draw1, MaxClock)
    \/ \E tn \in TrackingNumbers, body \in RaceStatusBodies :
          updateShipmentStatusFindOne(tn, body)
    \/ \E tn \in TrackingNumbers, body \in RaceManualBodies :
          updateShipmentLocationManuallyFindOne(tn, body)
    \/ \E k \in 1..Len(pending) : save(k)

SpecRace == Init /\ [][NextRace]_vars

\* ------------------------------------------------------------------------
\* Connection
\* ------------------------------------------------------------------------
\* connections opened in one behaviour, and connectDB calls in a row (bound of
\* the model)
MaxAttempts == 2

\* what an awaited connectDB() leaves: the connection, and whether it threw
Awaited(c, thrown) == [conn |-> c, thrown |-> thrown]

\* mutant of mongooseConnect: a connected connection is opened again
mongooseConnectReopening(c) ==
    IF c.reachable
    THEN Awaited([c EXCEPT !.readyState = Connected, !.attempts = @ + 1,
                           !.opened = TRUE], FALSE)
    ELSE Awaited([c EXCEPT !.readyState = Disconnected, !.attempts = @ + 1], TRUE)

\* mongoose.connect(mongoUri, options): on a connection that is open with the
\* same URI it resolves at once; otherwise it opens one, and rejects when the
\* server cannot be reached
mongooseConnect(c) ==
    CASE c.readyState = Connected -> Awaited(c, FALSE)
      [] c.reachable ->
           Awaited([c EXCEPT !.readyState = Connected, !.attempts = @ + 1,
                             !.opened = TRUE], FALSE)
      [] OTHER ->
           Awaited([c EXCEPT !.attempts = @ + 1], TRUE)

\* connectDB of either module, for a well-formed mongoUri
connectDB(c) ==
    CASE c.variant = "flag" /\ c.isConnected -> Awaited(c, FALSE)
      [] c.variant = "flag" ->
           LET opened == mongooseConnect(c)
           IN  IF opened.thrown THEN opened
               ELSE Awaited([opened.conn EXCEPT !.isConnected = TRUE], FALSE)
      [] OTHER -> mongooseConnect(c)

\* server.js, database connection check: connectDB() unless readyState is 1
connectionCheck(c) ==
    IF c.readyState # Connected THEN connectDB(c) ELSE Awaited(c, FALSE)

Serve(request, outcome, calls, c) ==
    /\ req' = request
    /\ res' = outcome.res
    /\ store' = outcome.store
    /\ nextId' = outcome.nextId
    /\ recovery' = calls
    /\ conn' = c
    /\ UNCHANGED pending

\* a handler that starts with Shipment.findOne, behind the connection check;
\* `normal` is what it does on a connected store, `error` what findOne throws
\* on a disconnected one
behindCheck(op, normal, error) ==
    LET checked == connectionCheck(conn)
    IN  CASE checked.thrown ->
               Serve(Request(op),
                     Outcome(Failure(500, "Database connection error"), store, nextId),
                     << >>, checked.conn)
          [] checked.conn.readyState = Connected ->
               Serve(Request(op), normal, << >>, checked.conn)
          [] OTHER ->
               Serve(Request(op), Outcome(caughtResponse(op), store, nextId),
                     << StoreCall("findOne", error) >>, checked.conn)

\* createShipment behind the connection check: the handler repeats the check,
\* answers 400 before it touches the store, and retries a failed save()
createShipmentBehindCheck(body, random, today, error) ==
    LET checked == connectionCheck(conn)
        again == connectionCheck(checked.conn)
        normal == createOutcome(body, random, today)
        attempt == retried("save", Faults(error,
                               IF connectDB(again.conn).thrown THEN error ELSE NoError,
                               error, NoError))
        unchanged(response) == Outcome(response, store, nextId)
    IN  CASE checked.thrown ->
               Serve(Request("createShipment"),
                     unchanged(Failure(500, "Database connection error")),
                     << >>, checked.conn)
          [] again.thrown ->
               Serve(Request("createShipment"),
                     unchanged(Failure(500, "Database connection error. Please try again later.")),
                     << >>, again.conn)
          [] again.conn.readyState = Connected \/ normal.res.code = 400 ->
               Serve(Request("createShipment"), normal, << >>, again.conn)
          [] OTHER ->
               Serve(Request("createShipment"),
                     unchanged(Failure(500, createCaught(attempt.thrown))),
                     attempt.calls, again.conn)

\* startServer, and the retry branches: `await connectDB()` whatever the
\* readyState; `recovery` logs the calls made in a row
connectDBCalled ==
    LET called == connectDB(conn)
        before == IF req.op = "connectDB" THEN recovery ELSE << >>
    IN  /\ Len(before) < MaxAttempts
        /\ req' = Request("connectDB")
        /\ conn' = called.conn
        /\ recovery' = Append(before, StoreCall("connectDB",
                           IF called.thrown THEN StoreError("MongoServerSelectionError", FALSE)
                           ELSE NoError))
        /\ UNCHANGED <<store, res, nextId, pending>>

\* what happens to the connection outside the handlers
Event(name, c) ==
    /\ req' = Request(name)
    /\ conn' = c
    /\ recovery' = << >>
    /\ UNCHANGED <<store, res, nextId, pending>>

\* the connection is lost; nothing in the source listens to 'disconnected'
disconnected ==
    /\ conn.readyState = Connected
    /\ \E reachable \in BOOLEAN :
          Event("disconnected", [conn EXCEPT !.readyState = Disconnected,
                                             !.reachable = reachable])

\* the server can be reached again
reachable ==
    /\ ~conn.reachable
    /\ Event("reachable", [conn EXCEPT !.reachable = TRUE])

\* the driver reopens a connection it had lost
reconnected ==
    /\ conn.readyState = Disconnected /\ conn.reachable /\ conn.opened
    /\ Event("reconnected", [conn EXCEPT !.readyState = Connected])

InitConnection ==
    /\ store = << >>
    /\ req = Request("none")
    /\ res = Json(0, [success |-> TRUE])
    /\ nextId = 1
    /\ recovery = << >>
    /\ pending = << >>
    /\ \E variant \in Variants, up \in BOOLEAN :
          conn = Connection(variant, Disconnected, FALSE, up, 0)

\* requests arrive while a connection may still be opened and a history has room
Admitted == conn.attempts < MaxAttempts /\ FleetRoom

NextConnection ==
    \/ \E body \in FleetCreateBodies, error \in ConnectivityErrors :
          Admitted /\ createShipmentBehindCheck(body, Draw1, MaxClock, error)
    \/ \E tn \in TrackingNumbers, body \in FleetStatusBodies, error \in ConnectivityErrors :
          Admitted /\ behindCheck("updateShipmentStatus",
                                  updateShipmentStatusOutcome(tn, body), error)
    \/ \E tn \in TrackingNumbers, body \in FleetLocationBodies, error \in ConnectivityErrors :
          Admitted /\ behindCheck("updateShipmentLocationManually",
                                  updateShipmentLocationManuallyOutcome(tn, body), error)
    \/ conn.attempts < MaxAttempts /\ connectDBCalled
    \/ disconnected
    \/ reachable
    \/ reconnected

SpecConnection == InitConnection /\ [][NextConnection]_vars

\* ------------------------------------------------------------------------
\* Location and status updates on a route with checkpoints
\* ------------------------------------------------------------------------
\* two checkpoints 0.11 km apart, and two of one name 0.56 km apart
ReachCreateBodies ==
    { CreateBody(Location(0, "A"), Location(20, "B"), TwoCheckpoints, Customer, 7),
      CreateBody(Location(0, "A"), Location(20, "B"),
                 << CheckpointInput(9, "CP1", NoValue), CheckpointInput(14, "CP1", NoValue) >>,
                 Customer, 7) }

\* positions in range of both checkpoints, of one, and of none
ReachLocationBodies ==
    { LocationBody(Point(4), "C", NoValue),
      LocationBody(Point(5), "C", NoValue),
      LocationBody(Point(9), "C", NoValue),
      LocationBody(Point(12), "C", "in_transit"),
      LocationBody(Point(20), "C", NoValue) }

ReachManualBodies ==
    { LocationBody(Point(4), "C", NoValue),
      LocationBody(Point(20), "C", "in_transit") }

\* requests are issued while every stored history has at most MaxHistory + 1
\* entries (bound of the model)
ReachRoom == \A i \in 1..Len(store) : Len(store[i].history) <= MaxHistory + 1

NextReach ==
    \/ \E body \in ReachCreateBodies, random \in RandomDraws :
          Len(store) = 0 /\ createShipment(body, random, MaxClock)
    \/ \E tn \in TrackingNumbers, body \in ReachLocationBodies :
          ReachRoom /\ updateShipmentLocation(tn, body)
    \/ \E tn \in TrackingNumbers, body \in ReachManualBodies :
          ReachRoom /\ updateShipmentLocationManually(tn, body)
    \/ \E tn \in TrackingNumbers, body \in FleetStatusBodies :
          ReachRoom /\ updateShipmentStatus(tn, body)

SpecReach == Init /\ [][NextReach]_vars

\* ------------------------------------------------------------------------
\* Properties
\* ------------------------------------------------------------------------
IsPrefix(s, t) == Len(s) <= Len(t) /\ SubSeq(t, 1, Len(s)) = s

\* the events appended to a history by a step
Appended(old, new) == SubSeq(new, Len(old) + 1, Len(new))

\* indices, in storage order, of the unreached checkpoints less than 0.5 km from a point
NearUnreached(shipment, point) ==
    SelectSeq([k \in 1..Len(shipment.checkpoints) |-> k],
              LAMBDA k : /\ ~shipment.checkpoints[k].reached
                         /\ calculateDistance(point, shipment.checkpoints[k].location.coordinates)
                              < ProximityRadius)

IsReachedAnnouncement(event) == event.description[1] = "Reached checkpoint: "

\* C1: a tracked location update that succeeds sets currentLocation to the new point
\* and appends the location-update event followed by one 'Reached checkpoint: <name>'
\* event, with the status after the update, for each unreached checkpoint less than
\* 0.5 km away, in storage order; exactly those checkpoints become reached.
C1_TrackedUpdateReachesCheckpoints ==
    [][req'.op = "updateShipmentLocation" =>
       \A tn \in TrackingNumbers, body \in LocationBodies :
         (res'.code = 200
            /\ updateShipmentLocation(tn, body))
         => LET i    == findOne(tn)
                old  == store[i]
                new  == store'[i]
                near == NearUnreached(old, body.coordinates)
                k    == Len(near)
                more == Appended(old.history, new.history)
            IN  /\ new.currentLocation = [coordinates |-> body.coordinates, address |-> body.address]
                /\ IsPrefix(old.history, new.history)
                /\ Len(more) = 1 + k
                /\ more[1].location = new.currentLocation
                /\ ~IsReachedAnnouncement(more[1])
                /\ \A j \in 1..k :
                      more[1 + j] = HistoryEvent(new.currentLocation, new.status,
                                       <<"Reached checkpoint: ", old.checkpoints[near[j]].name>>)
                /\ Len(new.checkpoints) = Len(old.checkpoints)
                /\ \A c \in 1..Len(old.checkpoints) :
                      new.checkpoints[c] =
                        IF \E j \in 1..k : near[j] = c
                        THEN [old.checkpoints[c] EXCEPT !.reached = TRUE]
                        ELSE old.checkpoints[c]
      ]_vars

\* a tracked update has just marked two checkpoints reached, in storage order
C1_Witness ==
    /\ req.op = "updateShipmentLocation" /\ res.code = 200
    /\ Len(store) = 1
    /\ Len(store[1].history) >= 3
    /\ LET h == store[1].history
       IN  /\ h[Len(h) - 1].description = <<"Reached checkpoint: ", "CP1">>
           /\ h[Len(h)].description = <<"Reached checkpoint: ", "CP2">>
    /\ \A c \in 1..Len(store[1].checkpoints) : store[1].checkpoints[c].reached

\* C2: a manual location update never changes a checkpoint and appends no
\* 'Reached checkpoint' event, whatever the target point.
C2_ManualUpdateKeepsCheckpoints ==
    [][req'.op = "updateShipmentLocationManually" =>
       \A tn \in TrackingNumbers, body \in ManualBodies :
         (updateShipmentLocationManually(tn, body))
         => /\ Len(store') = Len(store)
            /\ \A i \in 1..Len(store) :
                  /\ store'[i].checkpoints = store[i].checkpoints
                  /\ IsPrefix(store[i].history, store'[i].history)
                  /\ LET more == Appended(store[i].history, store'[i].history)
                     IN  \A j \in 1..Len(more) : ~IsReachedAnnouncement(more[j])
      ]_vars

\* a manual update has just moved the shipment to within 0.5 km of an unreached checkpoint
C2_Witness ==
    /\ req.op = "updateShipmentLocationManually" /\ res.code = 200
    /\ Len(store) = 1
    /\ store[1].currentLocation.coordinates = Point(4)
    /\ NearUnreached(store[1], store[1].currentLocation.coordinates) # << >>

\* C3: updateCheckpoint with reached = true on an unreached checkpoint marks it reached
\* and appends exactly one 'Checkpoint reached: <name>' event; when the flag does not go
\* from false to true no such event is appended.
C3_UpdateCheckpointAnnounces ==
    [][req'.op = "updateCheckpoint" =>
       \A tn \in TrackingNumbers, id \in CheckpointIds, body \in UpdateCheckpointBodies :
         (res'.code = 200 /\ updateCheckpoint(tn, id, body))
         => LET i    == findOne(tn)
                old  == store[i]
                new  == store'[i]
                c    == checkpointsId(old, id)
                more == Appended(old.history, new.history)
            IN  /\ (body.reached = JSTrue /\ ~old.checkpoints[c].reached)
                      => /\ new.checkpoints[c].reached
                         /\ more = << HistoryEvent(new.currentLocation, new.status,
                                         <<"Checkpoint reached: ", new.checkpoints[c].name>>) >>
                /\ ~(~old.checkpoints[c].reached /\ new.checkpoints[c].reached)
                      => more = << >>
      ]_vars

\* C4: the progress of every route-distance answer is an integer in 0..99, and it is 0
\* whenever totalDistance is 0.
C4_ProgressInRange ==
    (req.op = "getShipmentRouteDistance" /\ res.code = 200)
    => /\ res.body.data.progress \in 0..99
       /\ res.body.data.totalDistance = 0 => res.body.data.progress = 0

TrackingCharacters == {Chars[k] : k \in 1..Len(Chars)}

\* C5: a successful create stores a record with status 'pending', currentLocation equal
\* to origin, the single history event 'Shipment created', the supplied checkpoints in
\* order with reached = false, and a tracking number of three hyphen-separated groups of
\* four characters of [A-Z0-9].
C5_CreatedRecord ==
    [][req'.op = "createShipment" =>
       \A body \in CreateBodies, random \in RandomDraws, today \in 0..MaxClock :
         (res'.code = 201 /\ createShipment(body, random, today))
         => /\ Len(store') = Len(store) + 1
            /\ IsPrefix(store, store')
            /\ LET doc == store'[Len(store')]
                   tn  == doc.trackingNumber
               IN  /\ doc.status = "pending"
                   /\ doc.origin = body.origin
                   /\ doc.currentLocation = body.origin
                   /\ Len(doc.history) = 1
                   /\ doc.history[1].description = <<"Shipment created">>
                   /\ Len(doc.checkpoints) = Len(body.checkpoints)
                   /\ \A c \in 1..Len(doc.checkpoints) :
                         /\ doc.checkpoints[c].reached = FALSE
                         /\ doc.checkpoints[c].name = body.checkpoints[c].name
                         /\ doc.checkpoints[c].location = body.checkpoints[c].location
                   /\ Len(tn) = 14
                   /\ \A k \in 1..14 : IF k \in {5, 10} THEN tn[k] = "-"
                                       ELSE tn[k] \in TrackingCharacters
      ]_vars

\* a shipment was just created from a body with two checkpoints, one sent as reached
C5_Witness ==
    /\ req.op = "createShipment" /\ res.code = 201
    /\ Len(store) = 1
    /\ Len(store[1].checkpoints) = 2
    /\ store[1].history = << HistoryEvent(store[1].origin, "pending", <<"Shipment created">>) >>

\* C6: a create request with valid origin, destination and customer and no
\* estimatedDelivery is answered 201 and stores estimatedDelivery = creation day + 3.
C6_DefaultEstimatedDelivery ==
    [][req'.op = "createShipment" =>
       \A body \in CreateBodies, random \in RandomDraws, today \in 0..MaxClock :
         (body.estimatedDelivery = NoDate
            /\ ValidLocation(body.origin) /\ ValidLocation(body.destination)
            /\ body.customer = Customer /\ firstRejectedCheckpoint(body.checkpoints) = 0
            /\ findOne(generateTrackingNumber(random)) = 0
            /\ createShipment(body, random, today))
         => /\ res'.code = 201
            /\ Len(store') = Len(store) + 1
            /\ store'[Len(store')].estimatedDelivery = today + 3
      ]_vars

\* C7: the history of a stored shipment only grows at its end: what was stored before a
\* step is a prefix of what is stored after it.
C7_HistoryAppendOnly ==
    [][/\ Len(store) <= Len(store')
       /\ \A i \in 1..Len(store) :
             /\ store'[i].trackingNumber = store[i].trackingNumber
             /\ IsPrefix(store[i].history, store'[i].history)
      ]_vars

\* a shipment whose history has grown through a manual location update and a status update
C7_Witness ==
    /\ Len(store) = 1
    /\ Len(store[1].history) = 3
    /\ store[1].history[1].description = <<"Shipment created">>
    /\ store[1].history[2].description = <<"Location updated manually">>
    /\ store[1].history[3].description = <<"Status updated to ", "delivered">>

\* C8: update-status with any value of the enum on an existing shipment succeeds from any
\* current status, sets the status, appends exactly one event with that status at the
\* current location, and leaves currentLocation and checkpoints alone.
C8_StatusUnconstrained ==
    [][req'.op = "updateShipmentStatus" =>
       \A tn \in TrackingNumbers, body \in StatusBodies :
         (findOne(tn) # 0 /\ body.status \in StatusEnum
            /\ updateShipmentStatus(tn, body))
         => LET i    == findOne(tn)
                old  == store[i]
                new  == store'[i]
                more == Appended(old.history, new.history)
            IN  /\ res'.code = 200
                /\ new.status = body.status
                /\ IsPrefix(old.history, new.history)
                /\ Len(more) = 1
                /\ more[1].status = body.status
                /\ more[1].location = old.currentLocation
                /\ new.currentLocation = old.currentLocation
                /\ new.checkpoints = old.checkpoints
      ]_vars

\* a delivered shipment was just set back to pending
C8_Witness ==
    /\ req.op = "updateShipmentStatus" /\ res.code = 200
    /\ Len(store) = 1
    /\ store[1].status = "pending"
    /\ LET h == store[1].history
       IN  Len(h) >= 2 /\ h[Len(h) - 1].status = "delivered" /\ h[Len(h)].status = "pending"

\* C9: a well-formed checkpoint add, update or delete on an unknown tracking number, and
\* an update or delete of a checkpoint id the shipment does not have, is answered 404 and
\* changes no stored shipment. Stated by contraposition: a checkpoint request that was
\* not answered 404 with the store unchanged was no such request.
C9_CheckpointNotFound ==
    [][/\ (req'.op = "addCheckpoint" /\ ~(res'.code = 404 /\ store' = store)) =>
          \A tn \in TrackingNumbers, body \in AddCheckpointBodies :
            ~(addCheckpointValidators(tn, body) /\ findOne(tn) = 0
                /\ addCheckpoint(tn, body))
       /\ (req'.op = "updateCheckpoint" /\ ~(res'.code = 404 /\ store' = store)) =>
          \A tn \in TrackingNumbers, id \in CheckpointIds, body \in UpdateCheckpointBodies :
            ~((findOne(tn) = 0 \/ checkpointsId(store[findOne(tn)], id) = 0)
                /\ updateCheckpoint(tn, id, body))
       /\ (req'.op = "deleteCheckpoint" /\ ~(res'.code = 404 /\ store' = store)) =>
          \A tn \in TrackingNumbers, id \in CheckpointIds :
            ~((findOne(tn) = 0 \/ checkpointsId(store[findOne(tn)], id) = 0)
                /\ deleteCheckpoint(tn, id))
      ]_vars

\* a checkpoint request on a shipment that has checkpoints, but not that one, was refused
C9_Witness ==
    /\ req.op \in {"updateCheckpoint", "deleteCheckpoint"}
    /\ res.code = 404 /\ res.body.error = "Checkpoint not found"
    /\ Len(store) = 1 /\ Len(store[1].checkpoints) > 0

\* C10 as stated: update-status on an unknown tracking number is answered 404 for every
\* request body and changes no stored shipment.
C10_StatusNotFoundAnyBody ==
    [][req'.op = "updateShipmentStatus" =>
       \A tn \in TrackingNumbers, body \in StatusBodies :
         (findOne(tn) = 0 /\ updateShipmentStatus(tn, body))
         => res'.code = 404 /\ store' = store
      ]_vars

\* C10 amended: update-status on an unknown tracking number is answered 404 when the body
\* carries a status and 400 when it does not, and changes no stored shipment.
C10_StatusNotFound ==
    [][req'.op = "updateShipmentStatus" =>
       \A tn \in TrackingNumbers, body \in StatusBodies :
         (findOne(tn) = 0 /\ updateShipmentStatus(tn, body))
         => /\ res'.code = IF Truthy(body.status) THEN 404 ELSE 400
            /\ store' = store
      ]_vars

\* update-status on an unknown tracking number was refused while a shipment is stored
C10_Witness ==
    /\ req.op = "updateShipmentStatus"
    /\ res.code = 404
    /\ Len(store) = 1

\* the history event a manual location update with this body writes on this shipment
ManualEvent(shipment, body) ==
    HistoryEvent([coordinates |-> body.coordinates, address |-> body.address],
                 IF Truthy(body.status) THEN body.status ELSE shipment.status,
                 IF body.description # << >> THEN body.description
                 ELSE <<"Location updated manually">>)

\* the request before this one was the same manual update of this shipment, and succeeded
JustApplied(shipment, body) ==
    /\ req.op = "updateShipmentLocationManually" /\ res.code = 200
    /\ res.body.data = shipment
    /\ shipment.currentLocation = ManualEvent(shipment, body).location
    /\ shipment.status = ManualEvent(shipment, body).status
    /\ shipment.history[Len(shipment.history)] = ManualEvent(shipment, body)

\* C11: every successful manual location update appends exactly one event, also when it
\* repeats the update just applied: the second application appends a second, equal event
\* (two applications in a row lengthen the history by 2) and leaves currentLocation and
\* status as the first application set them.
C11_ManualUpdateNotDeduplicated ==
    [][req'.op = "updateShipmentLocationManually" =>
       \A tn \in TrackingNumbers, body \in ManualBodies :
         (res'.code = 200 /\ updateShipmentLocationManually(tn, body))
         => LET i   == findOne(tn)
                old == store[i]
                new == store'[i]
                n   == Len(old.history)
            IN  /\ Len(new.history) = n + 1
                /\ SubSeq(new.history, 1, n) = old.history
                /\ new.history[n + 1] = ManualEvent(old, body)
                /\ JustApplied(old, body) =>
                      /\ new.history[n + 1] = new.history[n]
                      /\ new.currentLocation = old.currentLocation
                      /\ new.status = old.status
      ]_vars

\* the same manual update, with a status and a description, was applied twice in a row
C11_Witness ==
    /\ req.op = "updateShipmentLocationManually" /\ res.code = 200
    /\ Len(store) = 1
    /\ LET h == store[1].history
       IN  /\ Len(h) = 3
           /\ h[2] = h[3]
           /\ h[3].description = <<"Left the depot">>
           /\ h[3].location = store[1].currentLocation
           /\ h[3].status = store[1].status

\* the body of an error response is {success: false, error, details?}
ErrorShape(response) ==
    /\ {"success", "error"} \subseteq DOMAIN response.body
    /\ DOMAIN response.body \subseteq {"success", "error", "details"}
    /\ response.body.success = FALSE

\* C12: every response with an error status has the body {success: false, error,
\* details?} and one of the statuses 400, 404 and 500, and a well-formed tracked location
\* update of an existing shipment with coordinates out of range is answered 400.
C12_ErrorResponses ==
    [][/\ res'.code >= 400 => (res'.code \in {400, 404, 500} /\ ErrorShape(res'))
       /\ req'.op = "updateShipmentLocation" =>
             \A tn \in TrackingNumbers, body \in LocationBodies :
               (/\ findOne(tn) # 0
                /\ locationValidators(tn, body)
                /\ ~ValidCoordinates(body.coordinates)
                /\ updateShipmentLocation(tn, body))
               => res'.code = 400
      ]_vars

\* no two stored shipments share a tracking number
UniqueTrackingNumbers(collection) ==
    \A i, j \in 1..Len(collection) :
        collection[i].trackingNumber = collection[j].trackingNumber => i = j

\* C13: no two stored shipments ever share a tracking number; no request removes a
\* shipment or changes the tracking number of a stored one; and a create with an
\* acceptable body whose drawn tracking number is already stored is answered 500
\* 'Duplicate tracking number. Please try again.' and changes nothing.
C13_TrackingNumbersUnique ==
    [][/\ UniqueTrackingNumbers(store')
       /\ Len(store') >= Len(store)
       /\ \A i \in 1..Len(store) : store'[i].trackingNumber = store[i].trackingNumber
       /\ req'.op = "createShipment" =>
             \A body \in FleetCreateBodies, random \in FleetDraws :
               (findOne(generateTrackingNumber(random)) # 0
                  /\ createShipment(body, random, MaxClock))
               => /\ res' = Failure(500, "Duplicate tracking number. Please try again.")
                  /\ store' = store
      ]_vars

\* with two shipments stored, a create that drew a stored number was refused
C13_Witness ==
    /\ req.op = "createShipment"
    /\ res = Failure(500, "Duplicate tracking number. Please try again.")
    /\ Len(store) = 2
    /\ store[1].trackingNumber # store[2].trackingNumber

\* the length of a polyline: the sum of the distances between consecutive points
RECURSIVE PolylineLength(_)
PolylineLength(points) ==
    IF Len(points) < 2 THEN 0
    ELSE calculateDistance(points[1], points[2]) + PolylineLength(Tail(points))

\* the stored shipment a route-distance answer is about
Answered == store[findOne(res.body.data.trackingNumber)]

RouteAnswered == req.op = "getShipmentRouteDistance" /\ res.code = 200

\* C14: the totalDistance of a route-distance answer is the length of the polyline
\* [origin, checkpoints in storage order, destination], to two decimals; without
\* checkpoints that is distance(origin, destination). It is a function of these
\* waypoints alone, whatever currentLocation and the reached flags are.
C14_TotalDistance ==
    RouteAnswered =>
      /\ res.body.data.totalDistance = toFixed2(PolylineLength(routePoints(Answered)))
      /\ Answered.checkpoints = << >> =>
            res.body.data.totalDistance =
              toFixed2(calculateDistance(Answered.origin.coordinates,
                                         Answered.destination.coordinates))

\* a route-distance answer for a shipment with two checkpoints, one of them reached, that
\* is neither at its origin nor at its destination
C14_Witness ==
    /\ RouteAnswered
    /\ Len(Answered.checkpoints) = 2
    /\ Answered.checkpoints[1].reached
    /\ Answered.currentLocation.coordinates \notin
          {Answered.origin.coordinates, Answered.destination.coordinates}
    /\ res.body.data.totalDistance > 0

\* the test of the second loop: the current location lies on segment k, with 10% margin
OnSegment(points, current, k) ==
    (calculateDistance(points[k], current) + calculateDistance(current, points[k + 1])) * 10
      <= calculateDistance(points[k], points[k + 1]) * 11

\* C15: the distanceTraveled of a route-distance answer is, for the first segment of the
\* polyline that passes the 10% test, the length of the polyline up to the start of that
\* segment plus the distance from there to the current location, whether or not a later
\* segment passes too; when no segment passes it is distance(origin, current).
C15_DistanceTraveled ==
    RouteAnswered =>
      LET points  == routePoints(Answered)
          current == Answered.currentLocation.coordinates
          passing == {k \in 1..(Len(points) - 1) : OnSegment(points, current, k)}
          first   == CHOOSE k \in passing : \A j \in passing : k <= j
      IN  res.body.data.distanceTraveled =
            toFixed2(IF passing = {}
                     THEN calculateDistance(Answered.origin.coordinates, current)
                     ELSE PolylineLength(SubSeq(points, 1, first))
                            + calculateDistance(points[first], current))

\* an answer for a route that doubles back, where the current location passes the test on
\* the first segment and again on the second
C15_Witness ==
    /\ RouteAnswered
    /\ LET points  == routePoints(Answered)
           current == Answered.currentLocation.coordinates
       IN  /\ Len(points) = 4
           /\ OnSegment(points, current, 1) /\ OnSegment(points, current, 2)
           /\ calculateDistance(points[1], current)
                 < calculateDistance(points[1], points[2]) + calculateDistance(points[2], current)
           /\ res.body.data.distanceTraveled
                 = toFixed2(calculateDistance(points[1], current))

\* the waypoints follow each other northwards at one spacing, and the current location
\* lies between the first and the last (all points are on one meridian)
EvenRoute(shipment) ==
    LET points == routePoints(shipment)
        step   == points[2][2] - points[1][2]
        at     == shipment.currentLocation.coordinates[2]
    IN  /\ step > 0
        /\ \A k \in 1..(Len(points) - 1) : points[k + 1][2] - points[k][2] = step
        /\ points[1][2] <= at /\ at <= points[Len(points)][2]

\* C16 as stated: on such a route the reported distanceTraveled plus the reported
\* remainingDistance equals the reported totalDistance.
C16_TraveledPlusRemainingExact ==
    (RouteAnswered /\ EvenRoute(Answered)) =>
      res.body.data.distanceTraveled + res.body.data.remainingDistance
        = res.body.data.totalDistance

\* C16 amended: on such a route the reported distanceTraveled plus the reported
\* remainingDistance differs from the reported totalDistance by at most 0.01 km, the
\* effect of rounding each of the three to two decimals.
C16_TraveledPlusRemaining ==
    (RouteAnswered /\ EvenRoute(Answered)) =>
      Abs(res.body.data.distanceTraveled + res.body.data.remainingDistance
            - res.body.data.totalDistance) <= 1

\* an answer for a shipment halfway along an even route with one checkpoint, where the
\* rounded parts add up to 0.01 km more than the rounded total
C16_Witness ==
    /\ RouteAnswered /\ EvenRoute(Answered)
    /\ Len(Answered.checkpoints) = 1
    /\ Answered.currentLocation.coordinates = Answered.checkpoints[1].location.coordinates
    /\ res.body.data.distanceTraveled + res.body.data.remainingDistance
          = res.body.data.totalDistance + 1

\* C20: for a shipment with n >= 1 checkpoints the checkpointDistances of a
\* route-distance answer has n entries, the j-th named after the j-th checkpoint.
C20_CheckpointDistances ==
    (RouteAnswered /\ Len(Answered.checkpoints) >= 1) =>
      /\ Len(res.body.data.checkpointDistances) = Len(Answered.checkpoints)
      /\ \A j \in 1..Len(Answered.checkpoints) :
            res.body.data.checkpointDistances[j].checkpointName = Answered.checkpoints[j].name

\* the ids of a shipment's checkpoints, in storage order
CheckpointOrder(shipment) ==
    [k \in 1..Len(shipment.checkpoints) |-> shipment.checkpoints[k].id]

\* C19: a successful add-checkpoint puts the new checkpoint, with reached = false, after
\* the existing ones and leaves those unchanged; a successful delete-checkpoint removes
\* the checkpoint with the given id and keeps the others unchanged and in order; neither
\* appends a history event; every other request leaves the ids of every stored
\* shipment's checkpoints and their order as they were.
C19_CheckpointOrder ==
    [][/\ req'.op = "addCheckpoint" =>
          \A tn \in TrackingNumbers, body \in FleetAddBodies :
            (res'.code = 200 /\ addCheckpoint(tn, body))
            => LET old == store[findOne(tn)]
                   new == store'[findOne(tn)]
                   n   == Len(old.checkpoints)
               IN  /\ Len(new.checkpoints) = n + 1
                   /\ SubSeq(new.checkpoints, 1, n) = old.checkpoints
                   /\ new.checkpoints[n + 1].reached = FALSE
                   /\ new.checkpoints[n + 1].name = body.name
                   /\ new.checkpoints[n + 1].location = body.location
                   /\ new.history = old.history
       /\ req'.op = "deleteCheckpoint" =>
          \A tn \in TrackingNumbers, id \in AddedCheckpointIds :
            (res'.code = 200 /\ deleteCheckpoint(tn, id))
            => LET old == store[findOne(tn)]
                   new == store'[findOne(tn)]
               IN  /\ Len(new.checkpoints) = Len(old.checkpoints) - 1
                   /\ new.checkpoints = SelectSeq(old.checkpoints, LAMBDA cp : cp.id # id)
                   /\ new.history = old.history
       /\ req'.op \notin {"addCheckpoint", "deleteCheckpoint"} =>
          \A i \in 1..Len(store) : CheckpointOrder(store'[i]) = CheckpointOrder(store[i])
      ]_vars

\* a checkpoint was added after two existing ones, then the middle one was deleted
C19_Witness ==
    /\ req.op = "deleteCheckpoint" /\ res.code = 200
    /\ Len(store) = 1
    /\ CheckpointOrder(store[1]) = <<1, 3>>
    /\ store[1].checkpoints[2].name = "CP3"

\* the entries of `recovery` that satisfy Test
Calls(Test(_)) == { k \in 1..Len(recovery) : Test(recovery[k]) }

\* C17: in every handler a store call that fails with a connectivity error is
\* followed by exactly one reconnect and, once reconnected, by exactly one retry
\* of that call; the request is answered 500 only after the reconnect or the
\* retry has failed, and is answered as usual when the retry succeeds.
C17_ReconnectAndRetryOnce ==
    recovery # << >> =>
        LET failed == recovery[1].call
            reconnects == Calls(LAMBDA c : c.call = "connectDB")
            attempts == Calls(LAMBDA c : c.call = failed)
        IN  /\ Cardinality(reconnects) = 1
            /\ \A k \in reconnects :
                  Cardinality(attempts) = IF recovery[k].error = NoError THEN 2 ELSE 1
            /\ res.code = 500 =>
                  \E k \in 2..Len(recovery) : recovery[k].error # NoError
            /\ recovery[Len(recovery)].error = NoError => res.code \in {200, 201}

\* the request that saved last among those that changed the status of the
\* shipment with this tracking number (0 when there is none)
StatusWriters(trackingNumber) ==
    { k \in Saved : /\ pending[k].trackingNumber = trackingNumber
                    /\ pending[k].code = 200
                    /\ assignedStatus(pending[k]) # pending[k].shipment.status }

\* C18: the update handlers are read-modify-write sequences without a version
\* check: every request that loaded the record saves it and answers 200,
\* whether or not another request saved in between, and the stored status is
\* the one written by the request that saved last.
C18_LastWriteWins ==
    /\ \A k \in Saved : pending[k].code = 200
    /\ \A i \in 1..Len(store) :
          \A k \in StatusWriters(store[i].trackingNumber) :
             (\A j \in StatusWriters(store[i].trackingNumber) :
                 pending[j].order <= pending[k].order)
             => store[i].status = assignedStatus(pending[k])

\* two requests on one tracking number both loaded the record before either
\* saved, both answered 200, and the stored record no longer has the status
\* written by the one that saved first
C18_Witness ==
    \E a \in Saved, b \in Saved :
        /\ pending[a].order < pending[b].order
        /\ pending[a].trackingNumber = pending[b].trackingNumber
        /\ pending[a].shipment = pending[b].shipment
        /\ pending[a].code = 200 /\ pending[b].code = 200
        /\ assignedStatus(pending[a]) # pending[a].shipment.status
        /\ store[findOne(pending[a].trackingNumber)].status # assignedStatus(pending[a])

\* what a connectDB call leaves of the connection
Effect(c) == <<c.readyState, c.isConnected>>

\* C21: connectDB is idempotent: called on a connected store it opens no
\* connection and changes nothing of the connection state, and a call that
\* follows another has the result and leaves the state of the one before.
C21_ConnectDBIdempotent ==
    [][ req'.op = "connectDB" /\ recovery' # recovery =>
          /\ conn.readyState = Connected =>
                conn' = conn /\ recovery'[Len(recovery')].error = NoError
          /\ req.op = "connectDB" =>
                /\ Effect(conn') = Effect(conn)
                /\ recovery'[Len(recovery')].error = recovery[Len(recovery)].error ]_vars

\* connectDB was called twice in a row, the second time on a connected store
C21_Witness ==
    /\ req.op = "connectDB"
    /\ Len(recovery) = 2
    /\ recovery[1].error = NoError
    /\ conn.readyState = Connected
    /\ conn.attempts = 1

HandlerOps == {"createShipment", "updateShipmentStatus", "updateShipmentLocationManually"}

\* C22: a request that arrives while the store is disconnected reaches its
\* handler only after a connection was opened for it; otherwise it is answered
\* 500 'Database connection error' and the handler does not run.
C22_HandlersRunConnected ==
    [][ req'.op \in HandlerOps /\ conn.readyState # Connected
        /\ <<res', recovery', conn', store'>> # <<res, recovery, conn, store>> =>
          \/ conn'.attempts = conn.attempts + 1 /\ conn'.readyState = Connected
          \/ /\ res' = Failure(500, "Database connection error")
             /\ recovery' = << >>
             /\ store' = store ]_vars

\* the 'Reached checkpoint: <name>' events of a shipment
ReachEvents(shipment, name) ==
    { k \in 1..Len(shipment.history) :
        shipment.history[k].description = <<"Reached checkpoint: ", name>> }

\* the checkpoints of that name that are marked reached
ReachedNamed(shipment, name) ==
    { k \in 1..Len(shipment.checkpoints) :
        shipment.checkpoints[k].name = name /\ shipment.checkpoints[k].reached }

\* C23: under tracked and manual location updates and status updates a
\* checkpoint that is reached stays reached, and the history holds at most one
\* 'Reached checkpoint: <name>' event for each checkpoint.
C23_ReachedOnce ==
    /\ [](\A i \in 1..Len(store) :
            \A c \in 1..Len(store[i].checkpoints) :
               LET name == store[i].checkpoints[c].name
               IN  Cardinality(ReachEvents(store[i], name))
                      <= Cardinality(ReachedNamed(store[i], name)))
    /\ [][\A i \in 1..Len(store) :
            /\ i <= Len(store')
            /\ Len(store'[i].checkpoints) = Len(store[i].checkpoints)
            /\ \A c \in 1..Len(store[i].checkpoints) :
                  store[i].checkpoints[c].reached => store'[i].checkpoints[c].reached]_vars

\* a tracked update stayed within 0.5 km of a checkpoint that an earlier
\* tracked update had reached and announced
C23_Witness ==
    \E i \in 1..Len(store) :
       \E c \in 1..Len(store[i].checkpoints) :
          LET shipment == store[i]
              checkpoint == shipment.checkpoints[c]
              last == shipment.history[Len(shipment.history)]
          IN  /\ req.op = "updateShipmentLocation"
              /\ res.code = 200
              /\ checkpoint.reached
              /\ Cardinality(ReachEvents(shipment, checkpoint.name)) = 1
              /\ last.description = <<"Location updated">>
              /\ calculateDistance(last.location.coordinates,
                                   checkpoint.location.coordinates) < ProximityRadius

=============================================================================
